---- MODULE Spec2Model ----
(***************************************************************************)
(* Model of the ACP session bridge of micode_monitor                       *)
(* (src-tauri/src/backend/app_server.rs): the local thread store, the      *)
(* pending-request table, the prompt trackers, the turn/start state        *)
(* machine and the stdout dispatch loop.                                   *)
(*                                                                         *)
(* A caller task takes one step from one await on the child or on the      *)
(* store to the next: the lock-protected sections it runs back to back     *)
(* (begin_prompt_tracking and register_active_prompt, for instance) are    *)
(* one step.  Between the steps of an operation the reader task and the    *)
(* other callers interleave with it.                                       *)
(***************************************************************************)
EXTENDS Integers, Sequences, FiniteSets, TLC

(***************************************************************************)
(* Bounds of the model                                                     *)
(***************************************************************************)
\* thread ids handed out
MaxThreads == 2
\* operations started in a run of SpecStore
StoreOps == 2
\* operations started in a run of SpecTurn
TurnOps == 2
\* turn/start calls that pass validation in a run of SpecTurn
TurnTurns == 1
\* session/update notifications the child emits in a run of SpecTurn
TurnNotes == 2
\* turn/start calls that pass validation in a run of SpecStore
StoreTurns == 1
\* turn/start calls that pass validation in a run of SpecRpc
RpcTurns == 1
\* turn/start calls in a run of SpecOverlap
OverlapOps == 2
\* session/update notifications the child emits in a run of SpecOverlap
OverlapNotes == 1
\* operations started in a run of SpecRpc
RpcOps == 2
\* response lines that answer no open request in a run of SpecRpc
RpcStale == 1
\* calls of send_response in a run of SpecPerm
PermOps == 2
\* permission requests the child emits in a run of SpecPerm
PermNotes == 1
\* options of a permission request
MaxOptions == 3
\* calls of persist_thread_item in a run of SpecItems
ItemOps == 4
\* turn ids of the items written in a run of SpecItems
ItemTurns == 3
\* operations started in a run of SpecInterrupt
InterruptOps == 2
\* turn/start calls that pass validation in a run of SpecInterrupt
InterruptTurns == 1
\* session/update notifications the child emits in a run of SpecInterrupt
InterruptNotes == 1
\* operations started in a run of SpecLife
LifeOps == 2
\* turn/start calls that pass validation in a run of SpecLife
LifeTurns == 1
\* session/update notifications the child emits in a run of SpecLife
LifeNotes == 2
\* operations started in a run of SpecSink
SinkOps == 1
\* session/update notifications the child emits in a run of SpecSink
SinkNotes == 3
\* operations started in a run of SpecWire
WireOps == 2
\* operations started and updates sent by the child in a run of SpecBg
BgOps == 2
BgNotes == 1
\* operations started and lines handled in a run of SpecTitle, and the
\* length of the titles made of TitleChars
TitleOps == 1
TitleNotes == 1
MaxTitle == 3
\* operations started and lines handled in a run of SpecCache
CacheOps == 1
CacheNotes == 3
\* operations started and lines handled in a run of SpecSegment
SegmentOps == 1
SegmentNotes == 5
\* turn/start calls in a run of SpecSession
SessionOps == 2
\* operations started in a run of SpecExit
ExitOps == 2
\* operations started and lines handled in a run of SpecAttr
AttrOps == 1
AttrNotes == 2
\* operations started and lines handled in a run of SpecTrace
TraceOps == 3
TraceNotes == 2
\* turn/start calls and chunks of the child in a run of SpecLate
LateOps == 2
LateNotes == 2
\* operations started and lines handled in a run of SpecReader
ReaderOps == 1
ReaderNotes == 2
\* bytes of a line, the newline that ends it included
LineBytes == 2
\* records of a sessions.json file that is loaded
MaxFile == 3
\* largest updated_at and message_index of a loaded record
MaxStamp == 1

\* const ACP_PROTOCOL_VERSION
ACP_PROTOCOL_VERSION == 1

\* the tasks that call send_request concurrently
Callers == {"c1", "c2"}
\* the task that runs spawn_workspace_session
Spawner == "spawn"
SessionSeq == <<"s1", "s2", "s3">>
Sessions == {SessionSeq[i] : i \in 1..Len(SessionSeq)}
\* texts of an agent_message_chunk; a text is a sequence of characters
Chunks == {<<" ">>, <<"a">>}
\* messages of an ACP error response
ErrMsgs == {"Session Not Found", "Request was aborted",
            "Session not found: request was aborted", "Internal error"}
\* messages of an ACP error response to session/cancel
CancelErrMsgs == {"Not Currently Generating", "Internal error"}

(***************************************************************************)
(* Pure helpers                                                            *)
(***************************************************************************)
\* str::trim().is_empty() on a text
IsBlank(text) == \A i \in 1..Len(text) : text[i] = " "

\* is_session_not_found_error: lower-cased message contains "session not found"
is_session_not_found_error(resp) ==
    /\ resp.kind = "error"
    /\ resp.msg \in {"Session Not Found", "Session not found: request was aborted"}

\* a comparison that does not lower-case the message first
is_request_aborted_cased(msg) ==
    msg \in {"Session not found: request was aborted"}

\* is_request_aborted_message: lower-cased message contains "request was aborted"
is_request_aborted_message(msg) ==
    msg \in {"Request was aborted", "Session not found: request was aborted"}

\* a comparison that does not lower-case the message first
is_not_generating_cased(msg) == msg \in {"not currently generating"}

\* is_not_generating_message: lower-cased message contains "not currently
\* generating"
is_not_generating_message(msg) ==
    msg \in {"Not Currently Generating", "not currently generating"}

\* an error member is never found
HasErrorNever(resp) == FALSE

\* acp_error_message(value).is_some()
HasError(resp) == resp.kind = "error"

\* derive_thread_title: None for a prompt whose first line is blank
derive_thread_title(prompt) == IF IsBlank(prompt) THEN "" ELSE "Derived"

PairGe(a, b) ==
    \/ a.updated_at > b.updated_at
    \/ a.updated_at = b.updated_at /\ a.message_index >= b.message_index

\* (a.updated_at, a.message_index) > (b.updated_at, b.message_index)
PairGt(a, b) ==
    \/ a.updated_at > b.updated_at
    \/ a.updated_at = b.updated_at /\ a.message_index > b.message_index

(***************************************************************************)
(* LocalThreadStore: records is the Vec<LocalThreadRecord>                 *)
(***************************************************************************)
LocalThreadRecord(t, s, ts) ==
    [thread_id |-> t, session_id |-> s, title |-> "New Thread",
     archived |-> FALSE, updated_at |-> ts, message_index |-> 0]

\* index of the first record with this thread id, 0 when there is none
IndexOfThread(recs, t) ==
    IF \E i \in 1..Len(recs) : recs[i].thread_id = t
    THEN CHOOSE i \in 1..Len(recs) :
            /\ recs[i].thread_id = t
            /\ \A j \in 1..(i - 1) : recs[j].thread_id # t
    ELSE 0

by_thread_id(recs, t) == IndexOfThread(recs, t)

upsert(recs, rec) ==
    LET i == IndexOfThread(recs, rec.thread_id)
    IN  IF i # 0 THEN [recs EXCEPT ![i] = rec] ELSE Append(recs, rec)

\* max_by keeps the last of several maximal elements
by_session_id(recs, s) ==
    LET held == {i \in 1..Len(recs) : recs[i].session_id = s}
    IN  IF held = {} THEN 0
        ELSE CHOOSE i \in held :
                \A j \in held :
                    \/ PairGt(recs[i], recs[j])
                    \/ ~PairGt(recs[j], recs[i]) /\ j <= i

list_unarchived(recs) == SelectSeq(recs, LAMBDA r : ~r.archived)

delete(recs, t) == SelectSeq(recs, LAMBDA r : r.thread_id # t)

set_title(recs, t, title, ts) ==
    LET i == IndexOfThread(recs, t)
    IN  IF i = 0 THEN recs
        ELSE [recs EXCEPT ![i].title = title, ![i].updated_at = ts]

set_session_id_noclear(recs, t, s, ts) ==
    LET i == IndexOfThread(recs, t)
    IN  IF i = 0 THEN recs
        ELSE [recs EXCEPT ![i].session_id = s, ![i].updated_at = ts]

set_session_id(recs, t, s, ts) ==
    LET cleared == [k \in 1..Len(recs) |->
                      IF s # "" /\ recs[k].thread_id # t /\ recs[k].session_id = s
                      THEN [recs[k] EXCEPT !.session_id = ""]
                      ELSE recs[k]]
        i == IndexOfThread(cleared, t)
    IN  IF i = 0 THEN cleared
        ELSE [cleared EXCEPT ![i].session_id = s, ![i].updated_at = ts]

touch_message(recs, t, ts) ==
    LET i == IndexOfThread(recs, t)
    IN  IF i = 0 THEN recs
        ELSE [recs EXCEPT ![i].message_index = @ + 1, ![i].updated_at = ts]

clear_session_ids(recs) ==
    [k \in 1..Len(recs) |-> [recs[k] EXCEPT !.session_id = ""]]

\* the loop of repair_session_collisions from index idx on; canonical maps a
\* session id to the index of the record that keeps it (0: none yet)
RECURSIVE RepairFrom(_, _, _)
RepairFrom(recs, idx, canonical) ==
    IF idx > Len(recs) THEN recs
    ELSE LET s == recs[idx].session_id
         IN  IF s = "" THEN RepairFrom(recs, idx + 1, canonical)
             ELSE IF canonical[s] = 0
                  THEN RepairFrom(recs, idx + 1, [canonical EXCEPT ![s] = idx])
                  ELSE IF PairGt(recs[idx], recs[canonical[s]])
                       THEN RepairFrom([recs EXCEPT ![canonical[s]].session_id = ""],
                                       idx + 1, [canonical EXCEPT ![s] = idx])
                       ELSE RepairFrom([recs EXCEPT ![idx].session_id = ""],
                                       idx + 1, canonical)

repair_session_collisions(recs) ==
    RepairFrom(recs, 1, [s \in Sessions |-> 0])

(***************************************************************************)
(* Thread items: one log (a JSON file) per thread id                       *)
(***************************************************************************)
build_user_thread_item(t, turn, text) ==
    [id |-> <<"user", t, turn>>, type |-> "userMessage", text |-> text]

build_agent_thread_item(t, turn, text) ==
    [id |-> <<"agent", t, turn>>, type |-> "agentMessage", text |-> text]

\* an item is pushed whether or not its id is in the log
push_thread_item(log, item) == Append(log, item)

upsert_thread_item(log, item) ==
    IF \E i \in 1..Len(log) : log[i].id = item.id
    THEN LET i == CHOOSE k \in 1..Len(log) :
                     /\ log[k].id = item.id
                     /\ \A j \in 1..(k - 1) : log[j].id # item.id
         IN  [log EXCEPT ![i] = item]
    ELSE Append(log, item)

(***************************************************************************)
(* State                                                                   *)
(***************************************************************************)
VARIABLES
    records,      \* thread_store.records
    items,        \* thread-items/<thread id>.json, by thread id
    now,          \* the wall clock read by now_ts()
    preferred,    \* model.preferredModel of the settings file
    next_id,      \* WorkspaceSession.next_id
    pending,      \* WorkspaceSession.pending: request id -> task holding the receiver
    stdin,        \* the request lines written to the child's stdin, in order
    streaming,    \* pending_prompt_streaming, by session id
    messages,     \* pending_prompt_agent_messages, by session id
    segments,     \* pending_prompt_agent_segments, by session id
    active,       \* active_prompts, by session id
    events,       \* the events sent into event_tx, in order
    call,         \* the caller tasks: operation, position and locals
    nextThread,   \* thread ids (Uuid::new_v4) handed out so far
    nextTurn,     \* turn ids (Uuid::new_v4) handed out so far
    sent,         \* history: request id -> the task, method and turn it was sent for
    answered,     \* history: request ids the child has answered
    woken,        \* history: request id -> tasks completed by a response with this id
    handed,       \* the session ids the child has handed out
    opsLeft,      \* operations that may still start
    notesLeft,    \* notifications the child may still emit
    staleLeft,    \* unmatched response lines the child may still emit
    file,         \* the records of sessions.json before load
    approval_requests, \* WorkspaceSession.approval_requests: request id -> options
    sink,         \* the events delivered to the event sink, in order
    wire,         \* the bytes written to the child's stdin, in order
    stdin_lock,   \* the task that holds the stdin mutex, "" when it is free
    tool_call_presentations, \* tool call id -> the presentation cached for it
    reader,       \* the task that reads the child's stdout: "running", "stopped"
    child,        \* the child process: "running", "killed", "exited"
    stdout_line,  \* the update of the line that lines.next_line() returned last
    background_threads, \* WorkspaceSession.background_threads: thread id -> session id
    background_thread_callbacks \* thread id -> the messages sent to its callback

storeVars == <<records, items, now, preferred>>
rpcVars == <<next_id, pending, stdin, sent, answered, woken, handed>>
trackVars == <<streaming, messages, segments, active>>
idVars == <<nextThread, nextTurn>>
budgetVars == <<opsLeft, notesLeft, staleLeft>>
auxVars == <<approval_requests, sink, wire, stdin_lock, tool_call_presentations>>
bgVars == <<reader, child, stdout_line, background_threads, background_thread_callbacks>>
vars == <<records, items, now, preferred, next_id, pending, stdin, streaming,
          messages, segments, active, events, call, nextThread, nextTurn, sent,
          answered, woken, handed, opsLeft, notesLeft, staleLeft, file,
          approval_requests, sink, wire, stdin_lock, tool_call_presentations,
          reader, child, stdout_line, background_threads, background_thread_callbacks>>

Tasks == {Spawner} \cup Callers

NoResp == [kind |-> "none", sid |-> "", msg |-> "", turn |-> FALSE]
OkResult == [kind |-> "result", sid |-> "", msg |-> "", turn |-> FALSE]
ErrorResponse(m) == [kind |-> "error", sid |-> "", msg |-> m, turn |-> FALSE]
NewResult(s) == [kind |-> "result", sid |-> s, msg |-> "", turn |-> FALSE]
\* the Err of send_acp_request when write_message fails
WriteError == [kind |-> "transport", sid |-> "", msg |-> "Broken pipe", turn |-> FALSE]

NoCtx == [thread_id |-> 0, turn_id |-> 0]
NoItem == [id |-> <<>>, type |-> "", text |-> <<>>]
NoLine == [id |-> 0, method |-> "", sid |-> "", protocolVersion |-> 0,
           outcome |-> "", optionId |-> "", decision |-> ""]

\* an Option that is None, or a member that is absent or no string
None == <<"(none)">>

\* the update member of a session/update line: the members the code reads.
\* tool and server stand for the first of the probed keys that holds a
\* string, content for the tool name of a content member that is an object
\* ("{}" for an object without one)
Update(kind, text, toolCallId) ==
    [kind |-> kind, text |-> text, toolCallId |-> toolCallId, tool |-> None,
     server |-> None, title |-> None, content |-> None, arguments |-> None,
     result |-> None, error |-> None]

\* a session/update line: params.sessionId and params.update
Notification(sid, update) == [sessionId |-> sid, update |-> update]

NoNotification == Notification("", Update("", <<>>, 0))

IdleCall ==
    [op |-> "none", pc |-> "idle", cont |-> "", method |-> "", rid |-> 0,
     resp |-> NoResp, thread |-> 0, turn |-> 0, session |-> "", tracked |-> "",
     stop |-> "", result |-> "none", errctx |-> "", errmsg |-> "", retTurn |-> 0,
     retItems |-> <<>>,
     \* history of the call, read by the properties only
     idx0 |-> 0, items0 |-> <<>>, heard |-> <<>>, saw |-> FALSE,
     first |-> NoResp, final |-> NoResp, news |-> 0, prompts |-> 0,
     created |-> 0,
     completed |-> 0, rebound |-> FALSE, timedout |-> FALSE,
     shared |-> FALSE, wrote |-> 0, said |-> <<>>, bumped |-> 0,
     had |-> FALSE, options |-> <<>>, decision |-> "", arg |-> 0,
     item |-> NoItem,
     \* write_message: the line being written and the bytes of it written
     line |-> NoLine, nwritten |-> 0,
     \* is_background / is_background_thread of thread/start and turn/start
     background |-> FALSE]

InitWith(f, ops, notes, stale) ==
    /\ file = f
    /\ records = <<>>
    /\ items = [t \in 1..MaxThreads |-> <<>>]
    /\ now = 0
    /\ preferred = "m1"
    /\ next_id = 1
    /\ pending = <<>>
    /\ stdin = <<>>
    /\ streaming = [s \in Sessions |-> "absent"]
    /\ messages = [s \in Sessions |-> <<>>]
    /\ segments = [s \in Sessions |-> -1]
    /\ active = [s \in Sessions |-> NoCtx]
    /\ events = <<>>
    /\ call = [c \in Tasks |->
                 IF c = Spawner
                 THEN [IdleCall EXCEPT !.op = "spawn", !.pc = "load",
                                       !.method = "initialize", !.cont = "init"]
                 ELSE IdleCall]
    /\ nextThread = Len(f)
    /\ nextTurn = 0
    /\ sent = <<>>
    /\ answered = {}
    /\ woken = <<>>
    /\ handed = {}
    /\ opsLeft = ops
    /\ notesLeft = notes
    /\ staleLeft = stale
    /\ approval_requests = <<>>
    /\ sink = <<>>
    /\ wire = <<>>
    /\ stdin_lock = ""
    /\ tool_call_presentations = <<>>
    /\ reader = "running"
    /\ child = "running"
    /\ stdout_line = NoNotification
    /\ background_threads = <<>>
    /\ background_thread_callbacks = <<>>

Started(op, t) == [IdleCall EXCEPT !.op = op, !.thread = t]

Request(rec, method, cont) ==
    [rec EXCEPT !.pc = "alloc", !.method = method, !.cont = cont, !.rid = 0,
                !.resp = NoResp]

\* the members of the item of an item/started or item/completed event
NoShown == [title |-> None, server |-> None, tool |-> None, arguments |-> None,
            result |-> None, error |-> None]

Event(method, t, turn, item, text) ==
    [method |-> method, thread |-> t, turn |-> turn, item |-> item, text |-> text,
     shown |-> NoShown]

\* A returned value is read before any other task takes a step: reading it
\* (Collect) changes nothing that another step reads.
NoReturn == \A c \in Callers : call[c].pc # "done"

(***************************************************************************)
(* send_acp_request                                                        *)
(***************************************************************************)
\* the value of next_id after fetch_add(1)
NextIdStuck(id) == id

NextId(id) == id + 1

Remove(f, k) == [x \in DOMAIN f \ {k} |-> f[x]]

\* the line of a request: its envelope and the members of its params that
\* the model reads
RequestLine(id, rec) ==
    [id |-> id, method |-> rec.method,
     sid |-> IF rec.method = "session/prompt" THEN rec.tracked
             ELSE IF rec.method = "session/cancel" THEN rec.session
             ELSE "",
     protocolVersion |-> IF rec.method = "initialize" THEN ACP_PROTOCOL_VERSION
                         ELSE 0,
     outcome |-> "", optionId |-> "", decision |-> ""]

\* fetch_add, oneshot::channel and pending.insert
AcpAlloc(c) ==
    /\ NoReturn
    /\ call[c].pc = "alloc"
    /\ next_id' = NextId(next_id)
    /\ pending' = (next_id :> c) @@ pending
    /\ sent' = (next_id :> [task |-> c, method |-> call[c].method,
                            turn |-> call[c].turn]) @@ sent
    /\ call' = [call EXCEPT ![c].pc = "write", ![c].rid = next_id,
                            ![c].resp = NoResp]
    /\ UNCHANGED <<storeVars, stdin, answered, woken, handed, trackVars, events,
                   idVars, budgetVars, file, auxVars, bgVars>>

\* write_message of the request envelope, then the task awaits the receiver
AcpWrite(c) ==
    /\ NoReturn
    /\ call[c].pc = "write"
    /\ stdin' = Append(stdin, RequestLine(call[c].rid, call[c]))
    /\ call' = [call EXCEPT
            ![c].pc = "wait",
            ![c].news = IF call[c].method = "session/new" /\ call[c].prompts > 0
                        THEN @ + 1 ELSE @,
            ![c].created = IF call[c].method = "session/new" THEN @ + 1 ELSE @,
            ![c].prompts = IF call[c].method = "session/prompt" THEN @ + 1 ELSE @]
    /\ UNCHANGED <<storeVars, next_id, pending, sent, answered, woken, handed,
                   trackVars, events, idVars, budgetVars, file, auxVars,
                   bgVars>>

\* AcpAlloc and AcpWrite in one step: no other task reads the table or the
\* stream between the two when every response answers a written request
AcpSend(c) ==
    /\ NoReturn
    /\ call[c].pc = "alloc"
    /\ next_id' = NextId(next_id)
    /\ pending' = (next_id :> c) @@ pending
    /\ sent' = (next_id :> [task |-> c, method |-> call[c].method,
                            turn |-> call[c].turn]) @@ sent
    /\ stdin' = Append(stdin, RequestLine(next_id, call[c]))
    /\ call' = [call EXCEPT
            ![c].pc = "wait", ![c].rid = next_id, ![c].resp = NoResp,
            ![c].news = IF call[c].method = "session/new" /\ call[c].prompts > 0
                        THEN @ + 1 ELSE @,
            ![c].created = IF call[c].method = "session/new" THEN @ + 1 ELSE @,
            ![c].prompts = IF call[c].method = "session/prompt" THEN @ + 1 ELSE @]
    /\ UNCHANGED <<storeVars, answered, woken, handed, trackVars, events, idVars,
                   budgetVars, file, auxVars, bgVars>>

\* send_acp_request of a session/prompt whose write_message fails: the id is
\* taken and the sender stays in the table, nothing reaches the child
AcpWriteFail(c) ==
    /\ NoReturn
    /\ call[c].pc = "alloc"
    /\ call[c].method = "session/prompt"
    /\ next_id' = NextId(next_id)
    /\ pending' = (next_id :> c) @@ pending
    /\ sent' = (next_id :> [task |-> c, method |-> call[c].method,
                            turn |-> call[c].turn]) @@ sent
    /\ call' = [call EXCEPT ![c].pc = "wait", ![c].rid = next_id,
                            ![c].resp = WriteError]
    /\ UNCHANGED <<storeVars, stdin, answered, woken, handed, trackVars, events,
                   idVars, budgetVars, file, auxVars, bgVars>>

\* the awaited receiver has a value
Answered(c, cont) ==
    /\ NoReturn
    /\ call[c].pc = "wait"
    /\ call[c].cont = cont
    /\ call[c].resp # NoResp

Returned(rec, result, ctx, msg) ==
    [rec EXCEPT !.pc = "done", !.rid = 0, !.result = result, !.errctx = ctx,
                !.errmsg = msg]

\* create_session_for_cwd whose write_message fails: send_acp_request returns
\* the error of the write, which every caller of create_session_for_cwd
\* returns as it is; the sender stays in the table
SessionNewWriteFail(c) ==
    /\ NoReturn
    /\ call[c].pc = "alloc"
    /\ call[c].method = "session/new"
    /\ next_id' = NextId(next_id)
    /\ pending' = (next_id :> c) @@ pending
    /\ sent' = (next_id :> [task |-> c, method |-> call[c].method,
                            turn |-> call[c].turn]) @@ sent
    /\ call' = [call EXCEPT ![c] =
                  Returned([@ EXCEPT !.resp = WriteError], "err", "", WriteError.msg)]
    /\ UNCHANGED <<storeVars, stdin, answered, woken, handed, trackVars, events,
                   idVars, budgetVars, file, auxVars, bgVars>>

\* write_message byte by byte.  The bytes of a line are numbered; the last
\* one is the newline.
LineOf(line, from, to) == [k \in 1..(to - from + 1) |->
                             [id |-> line.id, method |-> line.method,
                              at |-> from + k - 1]]

\* self.stdin.lock().await of write_message, and the line is serialized
WriteLock(c) ==
    /\ NoReturn
    /\ call[c].pc = "write"
    /\ stdin_lock = ""
    /\ stdin_lock' = c
    /\ call' = [call EXCEPT
            ![c].pc = "writing", ![c].nwritten = 0,
            ![c].line = IF call[c].op = "send_response" THEN @
                        ELSE RequestLine(call[c].rid, call[c])]
    /\ UNCHANGED <<storeVars, rpcVars, trackVars, events, idVars, budgetVars,
                   file, approval_requests, sink, wire, tool_call_presentations,
                   bgVars>>

\* write_all: one poll_write that takes n of the bytes not yet written; after
\* the last byte write_message returns and the guard of the mutex is dropped
WriteSome(c, n) ==
    LET rec == call[c]
        upto == rec.nwritten + n
        whole == upto = LineBytes
    IN  /\ NoReturn
        /\ rec.pc = "writing"
        /\ n \in 1..(LineBytes - rec.nwritten)
        /\ wire' = wire \o LineOf(rec.line, rec.nwritten + 1, upto)
        /\ stdin_lock' = IF whole THEN "" ELSE stdin_lock
        /\ stdin' = IF whole THEN Append(stdin, rec.line) ELSE stdin
        /\ call' = [call EXCEPT ![c] =
              IF ~whole THEN [rec EXCEPT !.nwritten = upto]
              ELSE IF rec.op = "send_response"
                   THEN Returned([rec EXCEPT !.nwritten = upto], "ok", "", "")
                   ELSE [rec EXCEPT
                           !.pc = "wait", !.nwritten = upto,
                           !.news = IF rec.method = "session/new" /\ rec.prompts > 0
                                    THEN @ + 1 ELSE @,
                           !.created = IF rec.method = "session/new"
                                       THEN @ + 1 ELSE @,
                           !.prompts = IF rec.method = "session/prompt"
                                       THEN @ + 1 ELSE @]]
        /\ UNCHANGED <<storeVars, next_id, pending, sent, answered, woken, handed,
                       trackVars, events, idVars, budgetVars, file,
                       approval_requests, sink, tool_call_presentations,
                       bgVars>>

(***************************************************************************)
(* spawn_workspace_session: load of the store and the initialize handshake *)
(***************************************************************************)
\* LocalThreadStore::load
Load ==
    /\ call[Spawner].pc = "load"
    /\ records' = repair_session_collisions(file)
    /\ call' = [call EXCEPT ![Spawner].pc = "alloc"]
    /\ UNCHANGED <<items, now, preferred, rpcVars, trackVars, events, idVars, budgetVars, file, auxVars,
                   bgVars>>

\* the task of the dispatch loop is spawned after the store was loaded
ReaderSpawned == call[Spawner].pc # "load"

\* the micode/connected event goes to the event sink directly
InitializeDone ==
    /\ Answered(Spawner, "init")
    /\ call' = [call EXCEPT ![Spawner] =
                  IF call[Spawner].resp.kind = "error"
                  THEN Returned(@, "err", "ACP initialize failed", call[Spawner].resp.msg)
                  ELSE Returned(@, "ok", "", "")]
    /\ sink' = IF call[Spawner].resp.kind = "error" THEN sink
               ELSE Append(sink, Event("micode/connected", 0, 0, <<>>, <<>>))
    /\ UNCHANGED <<storeVars, rpcVars, trackVars, events, idVars, budgetVars,
                   file, approval_requests, wire, stdin_lock,
                   tool_call_presentations, bgVars>>

\* the 15 second wait for the initialize response expires: child.kill()
InitializeTimeout ==
    /\ call[Spawner].pc = "wait"
    /\ call[Spawner].resp = NoResp
    /\ call' = [call EXCEPT ![Spawner] =
                  Returned(@, "err", "MiCode ACP did not respond to initialize", "")]
    /\ child' = "killed"
    /\ UNCHANGED <<storeVars, rpcVars, trackVars, events, idVars, budgetVars,
                   file, auxVars, reader, stdout_line, background_threads,
                   background_thread_callbacks>>

\* write_message of the initialize request fails, the child having closed
\* its end of the pipe: init_response? returns the error of the write
InitializeWriteFail ==
    /\ call[Spawner].pc = "alloc"
    /\ child = "exited"
    /\ next_id' = NextId(next_id)
    /\ pending' = (next_id :> Spawner) @@ pending
    /\ sent' = (next_id :> [task |-> Spawner, method |-> "initialize",
                            turn |-> 0]) @@ sent
    /\ call' = [call EXCEPT ![Spawner] =
                  Returned([@ EXCEPT !.resp = WriteError], "err", "", WriteError.msg)]
    /\ UNCHANGED <<storeVars, stdin, answered, woken, handed, trackVars, events,
                   idVars, budgetVars, file, auxVars, bgVars>>

\* the child process ends by itself
ChildExit ==
    /\ child = "running"
    /\ child' = "exited"
    /\ UNCHANGED <<storeVars, rpcVars, trackVars, events, call, idVars, budgetVars,
                   file, auxVars, reader, stdout_line, background_threads,
                   background_thread_callbacks>>

\* lines.next_line() returns Ok(None): the stdout of the child has ended,
\* the loop of the reader task ends and the task with it
ReaderEof ==
    /\ ReaderSpawned
    /\ reader = "running"
    /\ child # "running"
    /\ stdout_line = NoNotification
    /\ reader' = "stopped"
    /\ UNCHANGED <<storeVars, rpcVars, trackVars, events, call, idVars, budgetVars,
                   file, auxVars, child, stdout_line, background_threads,
                   background_thread_callbacks>>

\* the session is handed to the callers as soon as it is constructed
ConnectedAtSpawn == TRUE

\* spawn_workspace_session returned the session: operations can be called
Connected == call[Spawner].pc = "done" /\ call[Spawner].result = "ok"

\* The callers are interchangeable: c2 is the one that starts second.
CanStart(c) ==
    /\ NoReturn
    /\ Connected
    /\ call[c].pc = "idle"
    /\ c = "c2" => call["c1"].pc # "idle"
    /\ opsLeft > 0

\* the caller has read the returned value; its task ends
Collect(c) ==
    /\ call[c].pc = "done"
    /\ call' = [call EXCEPT ![c] = IdleCall]
    /\ UNCHANGED <<storeVars, rpcVars, trackVars, events, idVars, budgetVars, file, auxVars,
                   bgVars>>

(***************************************************************************)
(* thread/start, thread/resume, thread/archive, invalidate                 *)
(***************************************************************************)
\* thread/start calls: each will take a fresh thread id
StartingThreads == {c \in Callers : call[c].op = "thread/start" /\ call[c].pc # "done"}

\* thread/start; background is the _background member of the params
ThreadStartWith(c, background) ==
    /\ CanStart(c)
    /\ nextThread + Cardinality(StartingThreads) < MaxThreads
    /\ opsLeft' = opsLeft - 1
    /\ call' = [call EXCEPT ![c] =
                  Request([Started("thread/start", 0) EXCEPT
                              !.background = background],
                          "session/new", "th_start")]
    /\ UNCHANGED <<storeVars, rpcVars, trackVars, events, idVars, notesLeft,
                   staleLeft, file, auxVars, bgVars>>

\* create_local_thread: upsert, then set_session_id, under one lock
create_local_thread(recs, t, s, ts) ==
    set_session_id(upsert(recs, LocalThreadRecord(t, s, ts)), t, s, ts)

\* every thread is announced
announce_always(background) == TRUE

\* if !is_background of thread/start
announces(background) == ~background

ThreadStartDone(c) ==
    /\ Answered(c, "th_start")
    /\ IF call[c].resp.kind = "error"
       THEN /\ call' = [call EXCEPT ![c] = Returned(@, "err", "", call[c].resp.msg)]
            /\ UNCHANGED <<records, events, nextThread, background_threads>>
       ELSE /\ nextThread' = nextThread + 1
            /\ records' = IF call[c].background THEN records
                          ELSE create_local_thread(records, nextThread + 1,
                                                   call[c].resp.sid, now)
            /\ background_threads' =
                  IF call[c].background
                  THEN ((nextThread + 1) :> call[c].resp.sid) @@ background_threads
                  ELSE background_threads
            /\ events' = IF announces(call[c].background)
                         THEN Append(events,
                                     Event("thread/started", nextThread + 1, 0,
                                           <<>>, <<>>))
                         ELSE events
            /\ call' = [call EXCEPT ![c] =
                          Returned([@ EXCEPT !.thread = nextThread + 1], "ok", "", "")]
    /\ UNCHANGED <<items, now, preferred, rpcVars, trackVars, nextTurn, budgetVars,
                   file, auxVars, reader, child, stdout_line, background_thread_callbacks>>

ThreadStart(c) == ThreadStartWith(c, FALSE)

ThreadResume(c, t) ==
    /\ CanStart(c)
    /\ opsLeft' = opsLeft - 1
    /\ call' = [call EXCEPT ![c] =
                  IF by_thread_id(records, t) = 0
                  THEN Returned(Started("thread/resume", t), "err", "",
                                "thread not found")
                  ELSE Request(Started("thread/resume", t), "session/new",
                               "th_resume")]
    /\ UNCHANGED <<storeVars, rpcVars, trackVars, events, idVars, notesLeft,
                   staleLeft, file, auxVars, bgVars>>

\* a log that cannot be read
load_no_items(t) == <<>>

\* LocalThreadStore::load_thread_items: the log of the thread as it was written
load_thread_items(t) == items[t]

\* thread/resume after create_session_for_cwd: set_session_id, then the log
ThreadResumeDone(c) ==
    /\ Answered(c, "th_resume")
    /\ IF call[c].resp.kind = "error"
       THEN /\ call' = [call EXCEPT ![c] = Returned(@, "err", "", call[c].resp.msg)]
            /\ UNCHANGED records
       ELSE /\ records' = set_session_id(records, call[c].thread, call[c].resp.sid, now)
            /\ call' = [call EXCEPT ![c] =
                          Returned([@ EXCEPT !.retItems =
                                         load_thread_items(call[c].thread)],
                                   "ok", "", "")]
    /\ UNCHANGED <<items, now, preferred, rpcVars, trackVars, events, idVars, budgetVars, file, auxVars,
                   bgVars>>

\* thread/archive: LocalThreadStore::delete removes the record and the item log
ThreadArchive(c, t) ==
    /\ CanStart(c)
    /\ opsLeft' = opsLeft - 1
    /\ background_threads' = Remove(background_threads, t)
    /\ records' = IF t \in DOMAIN background_threads THEN records
                  ELSE delete(records, t)
    /\ items' = IF t \notin DOMAIN background_threads /\ by_thread_id(records, t) # 0
                THEN [items EXCEPT ![t] = <<>>]
                ELSE items
    /\ call' = [call EXCEPT ![c] =
                  Returned([Started("thread/archive", t) EXCEPT
                               !.had = by_thread_id(records, t) # 0],
                           "ok", "", "")]
    /\ UNCHANGED <<now, preferred, rpcVars, trackVars, events, idVars, notesLeft,
                   staleLeft, file, auxVars, reader, child, stdout_line,
                   background_thread_callbacks>>

invalidate_all_thread_sessions(c) ==
    /\ CanStart(c)
    /\ opsLeft' = opsLeft - 1
    /\ records' = clear_session_ids(records)
    /\ background_threads' = <<>>
    /\ call' = [call EXCEPT ![c] = Returned(Started("invalidate", 0), "ok", "", "")]
    /\ UNCHANGED <<items, now, preferred, rpcVars, trackVars, events, idVars,
                   notesLeft, staleLeft, file, auxVars, reader, child, stdout_line,
                   background_thread_callbacks>>

\* persist_thread_item: upsert_thread_item under the lock of the store
persist_thread_item(c, t, item) ==
    /\ CanStart(c)
    /\ opsLeft' = opsLeft - 1
    /\ items' = [items EXCEPT ![t] = upsert_thread_item(@, item)]
    /\ call' = [call EXCEPT ![c] =
                  Returned([Started("persist_thread_item", t) EXCEPT
                               !.items0 = items[t], !.item = item],
                           "ok", "", "")]
    /\ UNCHANGED <<records, now, preferred, rpcVars, trackVars, events, idVars,
                   notesLeft, staleLeft, file, auxVars, bgVars>>

(***************************************************************************)
(* Prompt trackers                                                         *)
(***************************************************************************)
\* begin_prompt_tracking: the new values of the three tracker maps
BeginStreaming(s) == [streaming EXCEPT ![s] = "false"]
BeginMessages(s) == [messages EXCEPT ![s] = <<>>]
BeginSegments(s) == [segments EXCEPT ![s] = 0]

HadStreamingAlways(s) == TRUE

\* finish_prompt_tracking returns the removed streaming flag, or false
HadStreaming(s) == streaming[s] = "true"

prepend_prompt_agent_delta(buf, delta) == delta \o buf

\* append_prompt_agent_delta: push_str on the buffer of the session
append_prompt_agent_delta(buf, delta) == buf \o delta

\* the retry of a "session not found" response is made however often it recurs
RetryAlways(cont) == TRUE

\* the session-not-found recovery is in the handling of the first attempt only
RetryAllowed(cont) == cont = "ts_first"

\* ActivePromptContext::agent_item_id
agent_item_id(ctx, segment) ==
    IF segment = 0 THEN <<"agent", ctx.thread_id, ctx.turn_id>>
    ELSE <<"agent", ctx.thread_id, ctx.turn_id, segment>>

(***************************************************************************)
(* turn/start                                                              *)
(***************************************************************************)
\* a turn/start call that has begun tracking a prompt on session s
InFlightOn(rec, s) ==
    /\ rec.op = "turn/start"
    /\ rec.pc \notin {"idle", "done"}
    /\ rec.tracked = s

\* another turn/start call is in flight on the session this call begins to track
Overlapped(c, s) == \E d \in Callers \ {c} : InFlightOn(call[d], s)

\* turn/start calls that passed validation so far
TurnsBegun ==
    nextTurn + Cardinality({c \in Callers : /\ call[c].op = "turn/start"
                                            /\ call[c].pc \notin {"idle", "done"}
                                            /\ call[c].turn = 0})

\* a prompt request of this call is outstanding
Prompting(rec) ==
    /\ rec.op = "turn/start"
    /\ rec.cont \in {"ts_first", "ts_retry"}
    /\ rec.pc \in {"alloc", "write", "writing", "wait"}

\* generate_commit_message and generate_run_metadata register a callback for
\* the background thread they have started, and remove it in the end
RegisterCallback(t) ==
    /\ NoReturn
    /\ t \in DOMAIN background_threads
    /\ t \notin DOMAIN background_thread_callbacks
    /\ background_thread_callbacks' = (t :> <<>>) @@ background_thread_callbacks
    /\ UNCHANGED <<storeVars, rpcVars, trackVars, events, call, idVars,
                   budgetVars, file, auxVars, reader, child, stdout_line,
                   background_threads>>

UnregisterCallback(t) ==
    /\ NoReturn
    /\ t \in DOMAIN background_thread_callbacks
    /\ \A c \in Callers : call[c].op = "turn/start" => call[c].thread # t
    /\ background_thread_callbacks' = Remove(background_thread_callbacks, t)
    /\ UNCHANGED <<storeVars, rpcVars, trackVars, events, call, idVars,
                   budgetVars, file, auxVars, reader, child, stdout_line,
                   background_threads>>

\* is_background_thread of turn/start
is_background_thread(t) ==
    \/ t \in DOMAIN background_thread_callbacks
    \/ t \in DOMAIN background_threads

\* validation, title, model preference and the session id of the thread
\* a session is created for a thread without one only
new_if_blank(changed, session_id) == session_id = ""

\* the two tests of turn/start that lead to create_session_for_cwd: the
\* model preference was changed, or the session id is blank
needs_session(changed, session_id) == changed \/ session_id = ""

\* a prompt without text is dispatched like any other
rejects_no_thread(t, known, prompt) == t = 0 \/ ~known

\* the three early returns of turn/start: no threadId, get_thread_by_id
\* fails, the prompt text is empty
rejects(t, known, prompt) == t = 0 \/ ~known \/ IsBlank(prompt)

TurnStart(c, t, prompt, model) ==
    LET idx == by_thread_id(records, t)
        background_session == IF t \in DOMAIN background_threads
                              THEN background_threads[t] ELSE ""
        \* get_thread_by_id is called for a thread without a background session
        known == t \in DOMAIN background_threads \/ idx # 0
        stored == t \notin DOMAIN background_threads /\ idx # 0
        rec0 == [Started("turn/start", t) EXCEPT
                    !.idx0 = IF idx = 0 THEN 0 ELSE records[idx].message_index,
                    !.items0 = IF t = 0 THEN <<>> ELSE items[t],
                    !.background = is_background_thread(t)]
        title == derive_thread_title(prompt)
        retitle == /\ ~is_background_thread(t)
                   /\ stored
                   /\ records[idx].title = "New Thread"
                   /\ title # ""
        changed == model # "" /\ model # preferred
        session_id == IF t \in DOMAIN background_threads THEN background_session
                      ELSE records[idx].session_id
    IN  /\ CanStart(c)
        /\ opsLeft' = opsLeft - 1
        /\ IF rejects(t, known, prompt)
           THEN /\ call' = [call EXCEPT ![c] =
                      Returned(rec0, "err", "",
                               IF t = 0 THEN "missing threadId"
                               ELSE IF ~known THEN "thread not found"
                               ELSE "empty user message")]
                /\ UNCHANGED <<records, preferred, events>>
           ELSE /\ records' = IF retitle THEN set_title(records, t, title, now)
                              ELSE records
                /\ events' = IF retitle
                             THEN Append(events,
                                         Event("thread/name/updated", t, 0, <<>>, <<>>))
                             ELSE events
                /\ preferred' = IF changed THEN model ELSE preferred
                /\ call' = [call EXCEPT ![c] =
                      LET rec == [rec0 EXCEPT !.session = session_id]
                      IN  IF needs_session(changed, session_id)
                          THEN Request(rec, "session/new", "ts_new")
                          ELSE [rec EXCEPT !.pc = "dispatch"]]
        /\ UNCHANGED <<items, now, rpcVars, trackVars, idVars, notesLeft,
                       staleLeft, file, auxVars, bgVars>>

\* the fresh session id is stored for the thread: in background_threads for
\* a background thread, in the thread store for any other
RebindStore(c, s) ==
    IF call[c].background THEN records
    ELSE set_session_id(records, call[c].thread, s, now)

RebindBackground(c, s) ==
    IF call[c].background THEN (call[c].thread :> s) @@ background_threads
    ELSE background_threads

\* the session/new issued before the prompt was answered
TurnNewDone(c) ==
    /\ Answered(c, "ts_new")
    /\ IF call[c].resp.kind = "error"
       THEN /\ call' = [call EXCEPT ![c] = Returned(@, "err", "", call[c].resp.msg)]
            /\ UNCHANGED <<records, background_threads>>
       ELSE /\ records' = RebindStore(c, call[c].resp.sid)
            /\ background_threads' = RebindBackground(c, call[c].resp.sid)
            /\ call' = [call EXCEPT ![c].pc = "dispatch", ![c].rid = 0,
                                    ![c].session = call[c].resp.sid]
    /\ UNCHANGED <<items, now, preferred, rpcVars, trackVars, events, idVars,
                   budgetVars, file, auxVars, reader, child, stdout_line,
                   background_thread_callbacks>>

\* user item, turn/started, begin_prompt_tracking, register_active_prompt
TurnDispatch(c) ==
    LET t == call[c].thread
        turn == nextTurn + 1
        s == call[c].session
    IN  /\ NoReturn
        /\ call[c].pc = "dispatch"
        /\ nextTurn' = turn
        /\ items' = IF call[c].background THEN items
                    ELSE [items EXCEPT ![t] =
                            upsert_thread_item(@, build_user_thread_item(t, turn, <<"p">>))]
        /\ events' = IF call[c].background THEN events
                     ELSE Append(events, Event("turn/started", t, turn, <<>>, <<>>))
        /\ streaming' = BeginStreaming(s)
        /\ messages' = BeginMessages(s)
        /\ segments' = BeginSegments(s)
        /\ active' = [active EXCEPT ![s] = [thread_id |-> t, turn_id |-> turn]]
        /\ call' = [d \in Tasks |->
                      IF d = c
                      THEN Request([call[c] EXCEPT !.turn = turn, !.tracked = s,
                                                   !.shared = Overlapped(c, s)],
                                   "session/prompt", "ts_first")
                      ELSE IF InFlightOn(call[d], s)
                           THEN [call[d] EXCEPT !.shared = TRUE]
                           ELSE call[d]]
        /\ UNCHANGED <<records, now, preferred, rpcVars, nextThread, budgetVars,
                       file, auxVars, bgVars>>

\* finish_prompt_tracking without clear_active_prompt
FinishTracking(s) ==
    /\ streaming' = [streaming EXCEPT ![s] = "absent"]
    /\ segments' = [segments EXCEPT ![s] = -1]
    /\ active' = active

\* finish_prompt_lifecycle
FinishLifecycle(s) ==
    /\ streaming' = [streaming EXCEPT ![s] = "absent"]
    /\ segments' = [segments EXCEPT ![s] = -1]
    /\ active' = [active EXCEPT ![s] = NoCtx]

\* the prompt response arrived within the 90 seconds
TurnResponse(c) ==
    LET resp == call[c].resp
        rec == [call[c] EXCEPT !.rid = 0, !.final = resp,
                               !.first = IF call[c].prompts = 1 THEN resp ELSE @]
    IN  /\ Prompting(call[c])
        /\ Answered(c, call[c].cont)
        /\ FinishLifecycle(call[c].tracked)
        /\ call' = [call EXCEPT ![c] =
              IF resp = WriteError
              THEN Returned(rec, "err", "", resp.msg)
              ELSE IF RetryAllowed(call[c].cont) /\ is_session_not_found_error(resp)
              THEN Request(rec, "session/new", "ts_retry_new")
              ELSE IF HasError(resp)
                   THEN IF is_request_aborted_message(resp.msg)
                        THEN [rec EXCEPT !.pc = "persist", !.stop = "cancelled"]
                        ELSE Returned(rec, "err", "turn/start failed", resp.msg)
                   ELSE [rec EXCEPT !.pc = "persist", !.stop = "response"]]
        /\ UNCHANGED <<storeVars, rpcVars, messages, events, idVars, budgetVars,
                       file, auxVars, bgVars>>

\* the session/new of the session-not-found recovery was answered
TurnRetryNewDone(c) ==
    LET s == call[c].resp.sid
        rebinds == RebindStore(c, s)
        idx == by_thread_id(rebinds, call[c].thread)
    IN  /\ Answered(c, "ts_retry_new")
        /\ IF call[c].resp.kind = "error"
           THEN /\ call' = [call EXCEPT ![c] =
                              Returned(@, "err", "", call[c].resp.msg)]
                /\ UNCHANGED <<records, trackVars, background_threads>>
           ELSE /\ records' = rebinds
                /\ background_threads' = RebindBackground(c, s)
                /\ streaming' = BeginStreaming(s)
                /\ messages' = BeginMessages(s)
                /\ segments' = BeginSegments(s)
                /\ active' = [active EXCEPT ![s] = [thread_id |-> call[c].thread,
                                                    turn_id |-> call[c].turn]]
                /\ call' = [d \in Tasks |->
                              IF d = c
                              THEN Request([call[c] EXCEPT
                                               !.tracked = s,
                                               !.rebound = idx = 0 \/
                                                   rebinds[idx].session_id = s,
                                               !.saw = FALSE, !.heard = <<>>,
                                               !.shared = @ \/ Overlapped(c, s)],
                                           "session/prompt", "ts_retry")
                              ELSE IF InFlightOn(call[d], s)
                                   THEN [call[d] EXCEPT !.shared = TRUE]
                                   ELSE call[d]]
        /\ UNCHANGED <<items, now, preferred, rpcVars, events, idVars, budgetVars,
                       file, auxVars, reader, child, stdout_line,
                       background_thread_callbacks>>

\* the 90 second wait for the prompt response expires
TurnTimeout(c) ==
    LET rec == [call[c] EXCEPT !.rid = 0, !.timedout = TRUE]
    IN  /\ NoReturn
        /\ Prompting(call[c])
        /\ call[c].pc = "wait"
        /\ call[c].resp = NoResp
        /\ FinishLifecycle(call[c].tracked)
        /\ call' = [call EXCEPT ![c] =
              IF HadStreaming(call[c].tracked)
              THEN [rec EXCEPT !.pc = "persist", !.stop = "end_turn"]
              ELSE Returned(rec, "err", "",
                            IF call[c].cont = "ts_first"
                            THEN "turn/start timed out waiting for MiCode response"
                            ELSE "turn/start timed out waiting for MiCode response after session recovery")]
        /\ UNCHANGED <<storeVars, rpcVars, messages, events, idVars, budgetVars,
                       file, auxVars, bgVars>>

\* the 90 second wait expires while send_acp_request is still in
\* write_message: the future is dropped where it stands, the guard of the
\* stdin mutex with it
TurnTimeoutInWrite(c) ==
    LET rec == [call[c] EXCEPT !.rid = 0, !.timedout = TRUE]
    IN  /\ NoReturn
        /\ Prompting(call[c])
        /\ call[c].pc \in {"write", "writing"}
        /\ stdin_lock' = IF stdin_lock = c THEN "" ELSE stdin_lock
        /\ FinishLifecycle(call[c].tracked)
        /\ call' = [call EXCEPT ![c] =
              IF HadStreaming(call[c].tracked)
              THEN [rec EXCEPT !.pc = "persist", !.stop = "end_turn"]
              ELSE Returned(rec, "err", "",
                            IF call[c].cont = "ts_first"
                            THEN "turn/start timed out waiting for MiCode response"
                            ELSE "turn/start timed out waiting for MiCode response after session recovery")]
        /\ UNCHANGED <<storeVars, rpcVars, messages, events, idVars, budgetVars,
                       file, approval_requests, sink, wire, tool_call_presentations,
                       bgVars>>

\* persist_prompt_agent_item
TurnPersist(c) ==
    LET t == call[c].thread
        text == messages[call[c].tracked]
        log == IF IsBlank(text) THEN items[t]
               ELSE upsert_thread_item(items[t],
                                       build_agent_thread_item(t, call[c].turn, text))
    IN  /\ NoReturn
        /\ call[c].pc = "persist"
        /\ messages' = IF call[c].background THEN messages
                       ELSE [messages EXCEPT ![call[c].tracked] = <<>>]
        /\ items' = IF call[c].background THEN items
                    ELSE [items EXCEPT ![t] = log]
        /\ call' = [call EXCEPT
                ![c].pc = "complete",
                ![c].wrote = IF call[c].background THEN @
                             ELSE @ + Len(log) - Len(items[t]),
                ![c].said = IF call[c].background \/ log = items[t] THEN @
                            ELSE log[Len(log)].text]
        /\ UNCHANGED <<records, now, preferred, rpcVars, streaming, segments, active,
                       events, idVars, budgetVars, file, auxVars, bgVars>>

\* an event that overtakes the events queued in the channel
emit_ahead(evs, event) == <<event>> \o evs

\* emit_event: event_tx.send on the unbounded channel of the session
emit_event(evs, event) == Append(evs, event)

\* touch_message, turn/completed and the returned value
TurnComplete(c) ==
    LET t == call[c].thread
        idx == by_thread_id(records, t)
        touched == touch_message(records, t, now)
    IN  /\ NoReturn
        /\ call[c].pc = "complete"
        /\ records' = IF call[c].background THEN records ELSE touched
        /\ events' = IF call[c].background THEN events
                     ELSE emit_event(events,
                                     Event("turn/completed", t, call[c].turn, <<>>, <<>>))
        /\ call' = [call EXCEPT ![c] =
              Returned([@ EXCEPT
                          !.completed = @ + 1,
                          !.bumped = IF idx = 0 \/ call[c].background THEN @
                                     ELSE @ + touched[idx].message_index
                                            - records[idx].message_index,
                          \* entry("turn").or_insert_with keeps a turn of the result
                          !.retTurn = IF call[c].stop = "response" /\ call[c].resp.turn
                                      THEN -1 ELSE call[c].turn],
                       "ok", "", "")]
        /\ UNCHANGED <<items, now, preferred, rpcVars, trackVars, idVars, budgetVars, file, auxVars,
                   bgVars>>

(***************************************************************************)
(* turn/interrupt                                                          *)
(***************************************************************************)
\* the session id of the thread, then session/cancel is sent
TurnInterrupt(c, t) ==
    LET idx == by_thread_id(records, t)
        rec == [Started("turn/interrupt", t) EXCEPT
                   !.had = idx # 0, !.arg = next_id,
                   !.session = IF idx = 0 THEN "" ELSE records[idx].session_id]
    IN  /\ CanStart(c)
        /\ opsLeft' = opsLeft - 1
        /\ call' = [call EXCEPT ![c] =
                      IF idx = 0 THEN Returned(rec, "err", "", "thread not found")
                      ELSE Request(rec, "session/cancel", "ti")]
        /\ UNCHANGED <<storeVars, rpcVars, trackVars, events, idVars, notesLeft,
                       staleLeft, file, auxVars, bgVars>>

\* the response to session/cancel arrived
TurnInterruptDone(c) ==
    LET resp == call[c].resp
    IN  /\ Answered(c, "ti")
        /\ call' = [call EXCEPT ![c] =
              IF HasError(resp)
              THEN IF is_not_generating_message(resp.msg)
                   THEN Returned([@ EXCEPT !.stop = "null"], "ok", "", "")
                   ELSE Returned(@, "err", "turn/interrupt failed", resp.msg)
              ELSE Returned([@ EXCEPT !.stop = "response"], "ok", "", "")]
        /\ UNCHANGED <<storeVars, rpcVars, trackVars, events, idVars, budgetVars,
                       file, auxVars, bgVars>>

(***************************************************************************)
(* The stdout dispatch loop: the child emits a line and the reader task    *)
(* handles it.  Lines are handled one at a time, in the order emitted.     *)
(***************************************************************************)
Written == {stdin[i].id : i \in {k \in 1..Len(stdin) : stdin[k].method # ""}}

\* the session ids for which the child is working on a prompt: it has read a
\* session/prompt request and not answered it yet
Working == {stdin[i].sid : i \in {k \in 1..Len(stdin) :
                                     /\ stdin[k].method = "session/prompt"
                                     /\ stdin[k].id \notin answered}}

\* what the child can answer to the request with this id
PayloadsFor(id) ==
    IF id \notin DOMAIN sent THEN {OkResult}
    ELSE IF sent[id].method = "session/new"
         THEN {NewResult(s) : s \in Sessions} \cup {ErrorResponse("Internal error")}
    ELSE IF sent[id].method = "session/prompt"
         THEN {OkResult} \cup {ErrorResponse(m) : m \in ErrMsgs}
    ELSE IF sent[id].method = "session/cancel"
         THEN {OkResult} \cup {ErrorResponse(m) : m \in CancelErrMsgs}
    ELSE {OkResult, ErrorResponse("Internal error")}

\* pending.remove(&id) of the dispatch loop
TakePending(table, id) == Remove(table, id)

\* the events the dispatch loop sends for a response line
ResponseEventsForward(evs, id) == Append(evs, Event("response", 0, 0, <<id>>, <<>>))

ResponseEvents(evs, id) == evs

\* a line with an id and a result or error member
ReaderResponse(id, payload) ==
    LET fresh == id \in Written /\ id \notin answered
        matched == id \in DOMAIN pending
        c == pending[id]
        \* the receiver of the sender stored under id has not been dropped
        alive == matched /\ call[c].rid = id /\ call[c].resp = NoResp
    IN  /\ NoReturn
        /\ ReaderSpawned
        /\ reader = "running"
        /\ stdout_line = NoNotification
        /\ id \in 1..next_id
        /\ payload \in PayloadsFor(id)
        /\ IF fresh THEN UNCHANGED staleLeft
           ELSE /\ staleLeft > 0
                /\ staleLeft' = staleLeft - 1
        /\ answered' = answered \cup {id}
        /\ handed' = IF fresh /\ payload.sid # "" THEN handed \cup {payload.sid}
                     ELSE handed
        /\ pending' = IF matched THEN TakePending(pending, id) ELSE pending
        /\ call' = IF alive THEN [call EXCEPT ![c].resp = payload] ELSE call
        /\ woken' = IF alive
                    THEN (id :> (IF id \in DOMAIN woken THEN woken[id] ELSE <<>>)
                                \o <<c>>) @@ woken
                    ELSE woken
        /\ events' = ResponseEvents(events, id)
        /\ UNCHANGED <<storeVars, next_id, stdin, sent, trackVars, idVars,
                       opsLeft, notesLeft, file, auxVars, bgVars>>

(***************************************************************************)
(* Texts and tool call presentations.  A text is a sequence of characters; *)
(* None stands for an Option that is None or a member that is no string.   *)
(***************************************************************************)
Micode == <<"m", "i", "c", "o", "d", "e">>
EditTool == <<"e", "d", "i", "t">>
GlobTool == <<"g", "l", "o", "b">>
ApproveAction == <<"A", "p", "p", "r", "o", "v", "e", " ", "a", "c", "t", "i", "o", "n">>

\* the characters a raw text is trimmed of from both ends
RECURSIVE TrimStartMatches(_, _)
TrimStartMatches(text, ch) ==
    IF text # <<>> /\ Head(text) = ch THEN TrimStartMatches(Tail(text), ch)
    ELSE text

RECURSIVE TrimEndMatches(_, _)
TrimEndMatches(text, ch) ==
    IF text # <<>> /\ text[Len(text)] = ch
    THEN TrimEndMatches(SubSeq(text, 1, Len(text) - 1), ch)
    ELSE text

\* str::trim_matches
trim_matches(text, ch) == TrimEndMatches(TrimStartMatches(text, ch), ch)

\* str::trim
trim(text) == trim_matches(text, " ")

\* str::contains
contains(text, pat) ==
    \E i \in 1..(Len(text) - Len(pat) + 1) : SubSeq(text, i, i + Len(pat) - 1) = pat

\* str::ends_with
ends_with(text, pat) ==
    /\ Len(text) >= Len(pat)
    /\ SubSeq(text, Len(text) - Len(pat) + 1, Len(text)) = pat

LowerChar(ch) ==
    CASE ch = "A" -> "a" [] ch = "D" -> "d" [] ch = "L" -> "l" [] ch = "M" -> "m"
      [] ch = "N" -> "n" [] ch = "U" -> "u" [] OTHER -> ch

\* str::to_ascii_lowercase
to_ascii_lowercase(text) == [i \in 1..Len(text) |-> LowerChar(text[i])]

eq_ignore_ascii_case(a, b) == to_ascii_lowercase(a) = to_ascii_lowercase(b)

sanitize_approval_title(raw) ==
    IF raw = None THEN None
    ELSE LET title == trim(raw)
         IN  IF \/ title = <<>>
                \/ title = <<"{", "}">>
                \/ title = <<"[", "]">>
                \/ eq_ignore_ascii_case(title, <<"n", "u", "l", "l">>)
                \/ eq_ignore_ascii_case(title,
                      <<"u", "n", "d", "e", "f", "i", "n", "e", "d">>)
             THEN None
             ELSE title

sanitize_tool_title(raw) ==
    LET title == sanitize_approval_title(raw)
    IN  IF title = None THEN None
        ELSE IF trim(title) \in {<<".">>, <<".", ".">>, <<"/">>} THEN None
        ELSE trim(title)

normalize_tool_name(raw) ==
    IF raw = None THEN None
    ELSE LET normalized == trim_matches(trim_matches(trim(raw), "\""), "'")
         IN  IF normalized = <<>> THEN None ELSE normalized

\* the title is searched for the patterns of a file glob before those of an edit
infer_glob_first(title) ==
    LET lower == to_ascii_lowercase(title)
    IN  IF contains(lower, <<"*", "*", "/">>) \/ contains(lower, <<"*", ".">>)
        THEN GlobTool
        ELSE IF contains(lower, <<"=", ">">>) THEN EditTool
        ELSE None

infer_tool_name_from_title(title) ==
    LET lower == to_ascii_lowercase(title)
    IN  IF contains(lower, <<"=", ">">>) THEN EditTool
        ELSE IF contains(lower, <<"*", "*", "/">>) \/ contains(lower, <<"*", ".">>)
        THEN GlobTool
        ELSE IF \/ ends_with(lower, <<".", "m", "d">>)
                \/ ends_with(lower, <<".", "t", "x", "t">>)
                \/ ends_with(lower, <<".", "j", "s", "o", "n">>)
                \/ contains(lower, <<".", "m", "d", ":">>)
                \/ contains(lower, <<".", "t", "x", "t", ":">>)
                \/ contains(lower, <<".", "j", "s", "o", "n", ":">>)
        THEN EditTool
        ELSE None

\* ToolCallPresentation; Default::default() has every member None
ToolCallPresentation(server, tool, title, arguments, result, error) ==
    [server |-> server, tool |-> tool, title |-> title, arguments |-> arguments,
     result |-> result, error |-> error]

DefaultPresentation == ToolCallPresentation(None, None, None, None, None, None)

EmptyObject == <<"{", "}">>

extract_tool_presentation_from_update(update) ==
    LET title == sanitize_tool_title(update.title)
        explicit == normalize_tool_name(update.tool)
        inferred == IF title = None THEN None
                    ELSE infer_tool_name_from_title(title)
        fromContent == IF update.content \in {None, EmptyObject} THEN None
                       ELSE normalize_tool_name(update.content)
        tool == IF explicit # None THEN explicit
                ELSE IF inferred # None THEN inferred
                ELSE fromContent
        named == normalize_tool_name(update.server)
        server == IF named = None /\ tool # None THEN Micode ELSE named
    IN  ToolCallPresentation(server, tool, title,
                             IF update.arguments # None THEN update.arguments
                             ELSE update.content,
                             update.result, update.error)

\* the toolCall member of a session/request_permission request; command
\* stands for the first token extract_command_tokens finds in the request
ToolCall(toolCallId) ==
    [toolCallId |-> toolCallId, tool |-> None, title |-> None, command |-> None,
     arguments |-> None, result |-> None, error |-> None]

\* extract_approval_command(params).first()
approval_command(toolCall) ==
    IF toolCall.command # None THEN toolCall.command
    ELSE IF sanitize_approval_title(toolCall.title) # None
    THEN sanitize_approval_title(toolCall.title)
    ELSE ApproveAction

extract_tool_presentation_from_permission(toolCall) ==
    LET title == sanitize_tool_title(toolCall.title)
        explicit == normalize_tool_name(toolCall.tool)
        inferred == IF title = None THEN None
                    ELSE infer_tool_name_from_title(title)
        tool == IF explicit # None THEN explicit
                ELSE IF inferred # None THEN inferred
                ELSE approval_command(toolCall)
    IN  ToolCallPresentation(Micode, tool, title,
                             IF toolCall.arguments # None THEN toolCall.arguments
                             ELSE approval_command(toolCall),
                             toolCall.result, toolCall.error)

\* merge_tool_presentation(Some(current), incoming)
merge_tool_presentation(current, incoming) ==
    LET merged == [f \in DOMAIN current |->
                      IF current[f] = None THEN incoming[f] ELSE current[f]]
    IN  IF merged.server = None /\ merged.tool # None
        THEN [merged EXCEPT !.server = Micode]
        ELSE merged

ToolPrefix == <<"T", "o", "o", "l", ":", " ">>

tool_call_display_title(presentation) ==
    IF presentation.server # None /\ presentation.tool # None
    THEN ToolPrefix \o presentation.server \o <<" ", "/", " ">> \o presentation.tool
    ELSE IF presentation.tool # None THEN ToolPrefix \o presentation.tool
    ELSE IF presentation.title # None THEN ToolPrefix \o presentation.title
    ELSE <<"T", "o", "o", "l", " ", "C", "a", "l", "l">>

UpdateKinds == {"agent_message_chunk", "agent_thought_chunk"}
ToolKinds == {"tool_call", "tool_call_update"}
\* the toolCallId members of the child's lines; 0 stands for a line without one
ToolIds == {1}

build_tool_thread_item(t, tool_item_id, presentation, status) ==
    [id |-> tool_item_id, type |-> "mcpToolCall", text |-> <<>>,
     server |-> presentation.server, tool |-> presentation.tool,
     title |-> tool_call_display_title(presentation),
     arguments |-> presentation.arguments, result |-> presentation.result,
     error |-> presentation.error, status |-> status, threadId |-> t]

\* bump_prompt_agent_segment: the counter of a tracked session only
bump_prompt_agent_segment(segs, sid) ==
    IF sid \in Sessions /\ segs[sid] # -1 THEN [segs EXCEPT ![sid] = @ + 1]
    ELSE segs

\* the kinds of update that mark the prompt of the session as streaming
StreamingKinds == {"agent_message_chunk", "agent_thought_chunk", "tool_call",
                   "tool_call_update", "plan"}

\* the turn id of the context made for an available_commands_update that
\* arrives when the session has no active prompt
OutOfTurn == -1

\* ActivePromptContext::reasoning_item_id
reasoning_item_id(ctx) == <<"reasoning", ctx.thread_id, ctx.turn_id>>

\* ActivePromptContext::fallback_tool_item_id
fallback_tool_item_id(ctx) == <<"tool", ctx.thread_id, ctx.turn_id>>

\* the item member of an item/started or item/completed event
ToolEvent(method, ctx, update, presentation) ==
    [Event(method, ctx.thread_id, 0,
           IF update.toolCallId # 0 THEN <<"tool", update.toolCallId>>
           ELSE fallback_tool_item_id(ctx),
           <<>>)
     EXCEPT !.shown = [title |-> tool_call_display_title(presentation),
                       server |-> presentation.server,
                       tool |-> presentation.tool,
                       arguments |-> presentation.arguments,
                       result |-> IF method = "item/completed"
                                  THEN presentation.result ELSE None,
                       error |-> IF method = "item/completed"
                                 THEN presentation.error ELSE None]]

\* an event for every kind of update, the unknown ones included
translate_every_kind(ctx, update, agent_item, cached_tool) ==
    <<Event("item/agentMessage/delta", ctx.thread_id, ctx.turn_id, agent_item,
            update.text)>>

\* translate_acp_update: the events for an update; agent_item is the item id
\* current_prompt_agent_item_id found (None: none), cached_tool the merged
\* presentation of the call (None: none)
translate_acp_update(ctx, update, agent_item, cached_tool) ==
    LET presentation ==
            merge_tool_presentation(
                IF cached_tool = None THEN DefaultPresentation ELSE cached_tool,
                extract_tool_presentation_from_update(update))
    IN  CASE update.kind = "agent_message_chunk" ->
               IF update.text = <<>> THEN <<>>
               ELSE <<Event("item/agentMessage/delta", ctx.thread_id, ctx.turn_id,
                            IF agent_item # None THEN agent_item
                            ELSE agent_item_id(ctx, 0),
                            update.text)>>
          [] update.kind = "agent_thought_chunk" ->
               IF update.text = <<>> THEN <<>>
               ELSE <<Event("item/reasoning/textDelta", ctx.thread_id,
                            ctx.turn_id, reasoning_item_id(ctx), update.text)>>
          [] update.kind = "plan" ->
               <<Event("turn/plan/updated", ctx.thread_id, ctx.turn_id, <<>>, <<>>)>>
          [] update.kind = "available_commands_update" ->
               <<Event("micode/availableCommands/updated", ctx.thread_id, 0,
                       <<>>, <<>>)>>
          [] update.kind = "tool_call" ->
               <<ToolEvent("item/started", ctx, update, presentation)>>
          [] update.kind = "tool_call_update" ->
               <<ToolEvent("item/completed", ctx, update, presentation)>>
          [] OTHER -> <<>>

\* clear_tool_call_presentation
clear_tool_call_presentation(cache, id) == Remove(cache, id)

\* background_thread_callbacks.get(&context.thread_id) finds a sender
has_callback(t) == t \in DOMAIN background_thread_callbacks

\* every update marks the prompt of its session
marks_always(kind) == TRUE

\* the matches! of the dispatch loop before mark_prompt_streaming
marks_streaming(kind) == kind \in StreamingKinds

\* a session/update notification of the child for session id sid
ReaderSessionUpdate(sid, update) ==
    LET kind == update.kind
        isChunk == kind = "agent_message_chunk"
        isToolKind == kind \in ToolKinds
        idx == by_session_id(records, sid)
        ctx == IF sid \in Sessions /\ active[sid] # NoCtx THEN active[sid]
               ELSE IF kind = "available_commands_update" /\ idx # 0
               THEN [thread_id |-> records[idx].thread_id, turn_id |-> OutOfTurn]
               ELSE NoCtx
        agent_item == IF isChunk /\ sid \in Sessions /\ segments[sid] # -1
                         /\ active[sid] # NoCtx
                      THEN agent_item_id(active[sid], segments[sid])
                      ELSE None
        id == update.toolCallId
        caches == ctx # NoCtx /\ isToolKind /\ id # 0
        existed == id \in DOMAIN tool_call_presentations
        merged == merge_tool_presentation(
                      IF existed THEN tool_call_presentations[id]
                      ELSE DefaultPresentation,
                      extract_tool_presentation_from_update(update))
        cached_tool == IF caches THEN merged ELSE None
        translated == IF ctx = NoCtx THEN <<>>
                      ELSE translate_acp_update(ctx, update, agent_item, cached_tool)
        inserted == IF caches THEN (id :> merged) @@ tool_call_presentations
                    ELSE tool_call_presentations
    IN  /\ NoReturn
        /\ ReaderSpawned
        /\ reader = "running"
        /\ notesLeft > 0
        /\ notesLeft' = notesLeft - 1
        \* mark_prompt_streaming
        /\ streaming' = IF /\ marks_streaming(kind)
                           /\ sid \in Sessions
                           /\ streaming[sid] # "absent"
                        THEN [streaming EXCEPT ![sid] = "true"] ELSE streaming
        \* append_prompt_agent_delta
        /\ messages' = IF isChunk /\ sid \in Sessions
                       THEN [messages EXCEPT
                               ![sid] = append_prompt_agent_delta(@, update.text)]
                       ELSE messages
        \* merge_tool_call_presentation, clear_tool_call_presentation
        /\ tool_call_presentations' =
              IF caches /\ kind = "tool_call_update"
              THEN clear_tool_call_presentation(inserted, id)
              ELSE inserted
        \* the translated events go to the callback of a background thread
        /\ IF ctx # NoCtx /\ has_callback(ctx.thread_id)
           THEN /\ background_thread_callbacks' =
                      [background_thread_callbacks EXCEPT
                          ![ctx.thread_id] = @ \o translated]
                /\ UNCHANGED events
           ELSE /\ events' = events \o translated
                /\ UNCHANGED background_thread_callbacks
        \* persist_thread_item of the tool item
        /\ items' = IF caches
                    THEN [items EXCEPT ![ctx.thread_id] =
                            upsert_thread_item(@,
                               build_tool_thread_item(ctx.thread_id, <<"tool", id>>,
                                  merged,
                                  IF kind = "tool_call_update" THEN "completed"
                                  ELSE "in_progress"))]
                    ELSE items
        /\ segments' = IF ctx # NoCtx /\ \/ kind = "tool_call_update"
                                         \/ kind = "tool_call" /\ id # 0 /\ ~existed
                       THEN bump_prompt_agent_segment(segments, sid)
                       ELSE segments
        \* history: saw, a notification during the wait for the prompt response;
        \* heard, the chunk texts from the dispatch until the item is written
        /\ call' = [c \in Tasks |->
                      [call[c] EXCEPT
                          !.saw = @ \/ /\ Prompting(call[c])
                                       /\ call[c].tracked = sid
                                       /\ call[c].resp = NoResp
                                       /\ kind \in StreamingKinds,
                          !.heard = IF /\ isChunk
                                       /\ call[c].tracked = sid
                                       /\ \/ Prompting(call[c])
                                          \/ call[c].pc = "persist"
                                    THEN @ \o update.text ELSE @]]
        \* the loop goes on to the next line
        /\ stdout_line' = NoNotification
        /\ UNCHANGED <<records, now, preferred, rpcVars, active, idVars, opsLeft,
                       staleLeft, file, approval_requests, sink, wire, stdin_lock,
                       reader, child, background_threads>>

\* lines.next_line() returns a session/update line
ReadLine(sid, update) ==
    /\ NoReturn
    /\ ReaderSpawned
    /\ reader = "running"
    /\ stdout_line = NoNotification
    /\ notesLeft > 0
    /\ stdout_line' = Notification(sid, update)
    /\ UNCHANGED <<storeVars, rpcVars, trackVars, events, call, idVars,
                   budgetVars, file, auxVars, reader, child, background_threads,
                   background_thread_callbacks>>

\* the dispatch loop handles the line it has read
DispatchLine ==
    /\ stdout_line # NoNotification
    /\ ReaderSessionUpdate(stdout_line.sessionId, stdout_line.update)

\* stdout lines that are no JSON text: an empty line, a blank one, two of
\* text that does not parse, and one of bytes that are no UTF-8
RawLines == {<<>>, <<" ">>, <<"x">>, <<"{", " ">>, <<"\\xff">>}

\* String::from_utf8 of the bytes of the line succeeds
valid_utf8(raw) == \A i \in 1..Len(raw) : raw[i] # "\\xff"

\* the loop ends at a line that does not parse
stops_at_parse_error(raw) == TRUE

\* while let Ok(Some(line)) = lines.next_line().await: the loop ends when
\* next_line returns an error
stops_reader(raw) == ~valid_utf8(raw)

\* a stdout line that serde_json::from_str does not parse
ReaderRawLine(raw) ==
    /\ NoReturn
    /\ ReaderSpawned
    /\ reader = "running"
    /\ stdout_line = NoNotification
    /\ notesLeft > 0
    /\ notesLeft' = notesLeft - 1
    /\ reader' = IF stops_reader(raw) THEN "stopped" ELSE "running"
    /\ events' = IF valid_utf8(raw) /\ trim(raw) # <<>>
                 THEN Append(events, Event("micode/parseError", 0, 0, <<>>, raw))
                 ELSE events
    /\ UNCHANGED <<storeVars, rpcVars, trackVars, call, idVars, opsLeft,
                   staleLeft, file, auxVars, child, stdout_line, background_threads,
                   background_thread_callbacks>>

\* a session/update notification of a child that sends them for the sessions
\* it is working on; tool is the toolCallId of a tool_call or tool_call_update
ReaderUpdate(sid, kind, text, tool) ==
    /\ sid \in Working
    /\ kind \in UpdateKinds \cup ToolKinds
    /\ text \in (IF kind = "agent_message_chunk" THEN Chunks
                 ELSE IF kind \in ToolKinds THEN {<<>>} ELSE {<<"a">>})
    /\ ReaderSessionUpdate(sid, Update(kind, text, tool))

(***************************************************************************)
(* The event forwarding task: event_rx.recv(), then emit_app_server_event   *)
(***************************************************************************)
\* the events of the channel that the task has handed to the sink
Forwarded == SelectSeq(sink, LAMBDA e : e.method # "micode/connected")

\* the task takes the event sent last
recv_latest(evs, n) == evs[Len(evs)]

\* recv on the unbounded channel after n events were received: the oldest
\* event not yet received
recv(evs, n) == evs[n + 1]

ForwardEvent ==
    /\ NoReturn
    /\ Len(Forwarded) < Len(events)
    /\ sink' = Append(sink, recv(events, Len(Forwarded)))
    /\ UNCHANGED <<storeVars, rpcVars, trackVars, events, call, idVars,
                   budgetVars, file, approval_requests, wire, stdin_lock,
                   tool_call_presentations, bgVars>>

(***************************************************************************)
(* Permission requests of the child and the responses to them              *)
(***************************************************************************)
\* an option without an optionId member that is a string
NoOptionId == "(none)"
OptionKinds == {"allow_once", "allow_always", "reject_once", "reject_always",
                "other"}
\* the decision member of the result handed to send_response; "(none)"
\* stands for a result without one
Decisions == {"accept", "decline", "(none)"}

always_then_once(decision) ==
    IF decision = "accept" THEN <<"allow_always", "allow_once">>
    ELSE <<"reject_always", "reject_once">>

\* the kinds preferred for a decision, in the order they are tried
preferred_kinds(decision) ==
    IF decision = "accept" THEN <<"allow_once", "allow_always">>
    ELSE <<"reject_once", "reject_always">>

\* find_map over the options: the first whose kind is among kinds and that
\* carries an optionId, 0 when there is none
FirstOption(options, kinds) ==
    LET hits == {i \in 1..Len(options) :
                    options[i].kind \in kinds /\ options[i].optionId # NoOptionId}
    IN  IF hits = {} THEN 0 ELSE CHOOSE i \in hits : \A j \in hits : i <= j

no_fallback(options) == 0

\* the or_else branch: the first option that carries an optionId
fallback_option(options) == FirstOption(options, OptionKinds)

\* the option send_response selects, 0 when it selects none
option_id(options, decision) ==
    LET kinds == preferred_kinds(decision)
        first == FirstOption(options, {kinds[1]})
        second == FirstOption(options, {kinds[2]})
    IN  IF first # 0 THEN first
        ELSE IF second # 0 THEN second
        ELSE fallback_option(options)

\* the line of a response to a request of the child
ResponseLine(id, outcome, optionId, decision) ==
    [id |-> id, method |-> "", sid |-> "", protocolVersion |-> 0,
     outcome |-> outcome, optionId |-> optionId, decision |-> decision]

\* the tool call is started whether or not the call id is in the cache
starts_always(existed, t) == t # 0

\* !existed && !thread_id.is_empty()
starts_tool(existed, t) == ~existed /\ t # 0

\* a session/request_permission request of the child; toolCall is its
\* toolCall member (toolCallId 0: none, or one without a toolCallId)
ReaderPermissionRequest(id, sid, options, toolCall) ==
    LET idx == by_session_id(records, sid)
        t == IF idx = 0 THEN 0 ELSE records[idx].thread_id
        tool == toolCall.toolCallId
        existed == tool \in DOMAIN tool_call_presentations
        merged == merge_tool_presentation(
                      IF existed THEN tool_call_presentations[tool]
                      ELSE DefaultPresentation,
                      extract_tool_presentation_from_permission(toolCall))
        starts == tool # 0 /\ starts_tool(existed, t)
        started == IF starts
                   THEN Append(events,
                          ToolEvent("item/started",
                                    [thread_id |-> t, turn_id |-> 0],
                                    Update("", <<>>, tool), merged))
                   ELSE events
    IN  /\ NoReturn
        /\ ReaderSpawned
        /\ reader = "running"
        /\ stdout_line = NoNotification
        /\ notesLeft > 0
        /\ notesLeft' = notesLeft - 1
        /\ approval_requests' = (id :> options) @@ approval_requests
        /\ tool_call_presentations' = IF tool # 0
                                      THEN (tool :> merged) @@ tool_call_presentations
                                      ELSE tool_call_presentations
        /\ segments' = IF starts THEN bump_prompt_agent_segment(segments, sid)
                       ELSE segments
        /\ items' = IF starts
                    THEN [items EXCEPT ![t] =
                            upsert_thread_item(@,
                               build_tool_thread_item(t, <<"tool", tool>>, merged,
                                                      "in_progress"))]
                    ELSE items
        /\ events' = Append(started,
                            Event("workspace/requestApproval", t, 0, <<id>>, <<>>))
        /\ UNCHANGED <<records, now, preferred, rpcVars, streaming, messages,
                       active, call, idVars, opsLeft, staleLeft, file, sink, wire,
                       stdin_lock, bgVars>>

\* a request whose toolCall member holds a toolCallId and nothing else
ReaderPermission(id, sid, options, tool) ==
    ReaderPermissionRequest(id, sid, options, ToolCall(tool))

\* send_response up to its write_message: the stored request is taken and
\* the line of the response is built
SendResponseBegin(c, id, decision) ==
    LET stored == id \in DOMAIN approval_requests
        options == IF stored THEN approval_requests[id] ELSE <<>>
        chosen == option_id(options, decision)
        line == IF ~stored THEN ResponseLine(id, "", NoOptionId, decision)
                ELSE IF chosen # 0
                     THEN ResponseLine(id, "selected", options[chosen].optionId, "")
                     ELSE ResponseLine(id, "cancelled", NoOptionId, "")
    IN  /\ CanStart(c)
        /\ opsLeft' = opsLeft - 1
        /\ approval_requests' = Remove(approval_requests, id)
        /\ call' = [call EXCEPT ![c] =
                      [Started("send_response", 0) EXCEPT
                          !.pc = "write", !.arg = id, !.had = stored,
                          !.options = options, !.decision = decision,
                          !.line = line]]
        /\ UNCHANGED <<storeVars, rpcVars, trackVars, events, idVars, notesLeft,
                       staleLeft, file, sink, wire, stdin_lock,
                       tool_call_presentations, bgVars>>

\* send_response in one step: the answer of the client to the request with
\* this id
send_response(c, id, decision) ==
    LET stored == id \in DOMAIN approval_requests
        options == IF stored THEN approval_requests[id] ELSE <<>>
        chosen == option_id(options, decision)
        line == IF ~stored THEN ResponseLine(id, "", NoOptionId, decision)
                ELSE IF chosen # 0
                     THEN ResponseLine(id, "selected", options[chosen].optionId, "")
                     ELSE ResponseLine(id, "cancelled", NoOptionId, "")
    IN  /\ CanStart(c)
        /\ opsLeft' = opsLeft - 1
        /\ approval_requests' = Remove(approval_requests, id)
        /\ stdin' = Append(stdin, line)
        /\ call' = [call EXCEPT ![c] =
                      Returned([Started("send_response", 0) EXCEPT
                                   !.arg = id, !.had = stored, !.options = options,
                                   !.decision = decision],
                               "ok", "", "")]
        /\ UNCHANGED <<storeVars, next_id, pending, sent, answered, woken, handed,
                       trackVars, events, idVars, notesLeft, staleLeft, file, sink,
                       wire, stdin_lock, tool_call_presentations, bgVars>>

(***************************************************************************)
(* The child process and the specifications                                *)
(***************************************************************************)
Handshake == Load \/ InitializeDone \/ InitializeTimeout

\* the child answers a request, or emits a response that answers none
Respond == \E id \in 1..next_id : \E payload \in PayloadsFor(id) :
              ReaderResponse(id, payload)

\* the session ids in use: handed out by this child or stored by an earlier run
Used == handed \cup {file[i].session_id : i \in 1..Len(file)}

\* a child that hands out a new session id at every session/new
FreshPayloadsFor(id) ==
    {p \in PayloadsFor(id) :
        p.sid # "" => /\ p.sid \notin Used
                      /\ \A i, j \in 1..Len(SessionSeq) :
                            SessionSeq[i] = p.sid /\ j < i => SessionSeq[j] \in Used}

RespondFresh == \E id \in 1..next_id : \E payload \in FreshPayloadsFor(id) :
                   ReaderResponse(id, payload)

\* a child that answers every request with a result
RespondPlain == \E id \in 1..next_id :
                   \E payload \in {p \in FreshPayloadsFor(id) : p.kind = "result"} :
                      ReaderResponse(id, payload)

\* a child that answers with a result, "Session Not Found" or "Internal error"
\* and may hand out a session id again
RespondStore == \E id \in 1..next_id :
                   \E payload \in {p \in PayloadsFor(id) :
                                     p.msg \in {"", "Session Not Found",
                                                "Internal error"}} :
                      ReaderResponse(id, payload)

Notify == \E sid \in Sessions, kind \in UpdateKinds, text \in Chunks :
             ReaderUpdate(sid, kind, text, 0)

\* a tool call of the prompt the child is working on starts or ends
NotifyTool == \E sid \in Sessions, kind \in ToolKinds, tool \in ToolIds \cup {0} :
                 ReaderUpdate(sid, kind, <<>>, tool)

\* SpecLoad: LocalThreadStore::load on every file of at most MaxFile records
\* whose stamps are at most MaxStamp.
LoadFiles ==
    UNION {{[i \in 1..n |->
               [LocalThreadRecord(i, g[i][1], g[i][2]) EXCEPT
                   !.message_index = g[i][3]]] :
            g \in [1..n -> {"", "s1", "s2"} \X (0..MaxStamp) \X (0..MaxStamp)]} :
           n \in 0..MaxFile}

LoadInit == \E f \in LoadFiles : InitWith(f, 0, 0, 0)

LoadNext == Load

SpecLoad == LoadInit /\ [][LoadNext]_vars

\* SpecStore: every operation that writes the thread store, called by two
\* concurrent tasks; the child answers requests in any order and may hand
\* out a session id that a record already holds.
StoreFiles == {<<>>, <<LocalThreadRecord(1, "s1", 0)>>,
               <<LocalThreadRecord(1, "s1", 0), LocalThreadRecord(2, "s2", 0)>>}

StoreInit == \E f \in StoreFiles : InitWith(f, StoreOps, 0, 0)

StoreNext ==
    \/ Handshake
    \/ \E c \in Callers : Collect(c)
    \/ \E c \in Tasks : AcpSend(c)
    \/ RespondStore
    \/ \E c \in Callers :
          \/ ThreadStart(c)
          \/ ThreadStartDone(c)
          \/ \E t \in 1..MaxThreads : ThreadResume(c, t)
          \/ ThreadResumeDone(c)
          \/ \E t \in 1..MaxThreads : ThreadArchive(c, t)
          \/ invalidate_all_thread_sessions(c)
          \/ TurnsBegun < StoreTurns /\ \E t \in 1..MaxThreads, model \in {"", "m2"} :
                                   TurnStart(c, t, <<"p">>, model)
          \/ TurnNewDone(c)
          \/ TurnDispatch(c)
          \/ TurnResponse(c)
          \/ TurnRetryNewDone(c)
          \/ TurnTimeout(c)
          \/ TurnPersist(c)
          \/ TurnComplete(c)

SpecStore == StoreInit /\ [][StoreNext]_vars

\* SpecTurn: a turn/start call on a stored thread, concurrent with
\* thread/archive of the thread, while the child streams notifications and
\* answers with any result or error.
TurnFiles == {<<LocalThreadRecord(1, "s1", 0)>>, <<LocalThreadRecord(1, "", 0)>>}

TurnInit == \E f \in TurnFiles : InitWith(f, TurnOps, TurnNotes, 0)

TurnNext ==
    \/ Handshake
    \/ \E c \in Callers : Collect(c)
    \/ \E c \in Tasks : AcpSend(c)
    \/ RespondFresh
    \/ Notify
    \/ \E c \in Callers :
          \/ ThreadArchive(c, 1)
          \/ TurnsBegun < TurnTurns /\ TurnStart(c, 1, <<"p">>, "")
          \/ TurnNewDone(c)
          \/ TurnDispatch(c)
          \/ TurnResponse(c)
          \/ TurnRetryNewDone(c)
          \/ TurnTimeout(c)
          \/ TurnPersist(c)
          \/ TurnComplete(c)

SpecTurn == TurnInit /\ [][TurnNext]_vars

\* SpecOverlap: turn/start calls on the same thread that overlap or follow
\* each other; the child answers every request with a result, or not at all.
OverlapInit == InitWith(<<LocalThreadRecord(1, "s1", 0)>>, OverlapOps, OverlapNotes, 0)

OverlapNext ==
    \/ Handshake
    \/ \E c \in Callers : Collect(c)
    \/ \E c \in Tasks : AcpSend(c)
    \/ RespondPlain
    \/ Notify
    \/ \E c \in Callers :
          \/ TurnStart(c, 1, <<"p">>, "")
          \/ TurnDispatch(c)
          \/ TurnResponse(c)
          \/ TurnTimeout(c)
          \/ TurnPersist(c)
          \/ TurnComplete(c)

SpecOverlap == OverlapInit /\ [][OverlapNext]_vars

\* SpecRpc: the request/response correlation; allocation and write of a
\* request are separate steps and the child also emits responses that
\* answer no open request.
RpcInit == InitWith(<<LocalThreadRecord(1, "s1", 0)>>, RpcOps, 0, RpcStale)

RpcNext ==
    \/ Handshake
    \/ \E c \in Callers : Collect(c)
    \/ \E c \in Tasks : AcpAlloc(c)
    \/ \E c \in Tasks : AcpWrite(c)
    \/ Respond
    \/ \E c \in Callers :
          \/ ThreadStart(c)
          \/ ThreadStartDone(c)
          \/ TurnsBegun < RpcTurns /\ TurnStart(c, 1, <<"p">>, "")
          \/ TurnDispatch(c)
          \/ TurnResponse(c)
          \/ TurnRetryNewDone(c)
          \/ TurnTimeout(c)
          \/ TurnPersist(c)
          \/ TurnComplete(c)

SpecRpc == RpcInit /\ [][RpcNext]_vars

\* SpecWire: the tasks write their lines to the child's stdin byte by byte:
\* the requests of the handshake and of turn/start calls on thread 1, under
\* their timeouts, and responses to requests of the child.
WireInit == InitWith(<<LocalThreadRecord(1, "s1", 0)>>, WireOps, 0, 0)

WireNext ==
    \/ Handshake
    \/ \E c \in Callers : Collect(c)
    \/ \E c \in Tasks : AcpAlloc(c)
    \/ \E c \in Tasks : WriteLock(c)
    \/ \E c \in Tasks, n \in 1..LineBytes : WriteSome(c, n)
    \/ RespondPlain
    \/ \E c \in Callers :
          \/ SendResponseBegin(c, 1, "accept")
          \/ TurnStart(c, 1, <<"p">>, "")
          \/ TurnDispatch(c)
          \/ TurnResponse(c)
          \/ TurnTimeout(c)
          \/ TurnTimeoutInWrite(c)
          \/ TurnPersist(c)
          \/ TurnComplete(c)

SpecWire == WireInit /\ [][WireNext]_vars

\* SpecBg: thread 1 is a stored thread; every thread that is started is a
\* background thread, as generate_commit_message starts them.  turn/start
\* calls run on thread 1 and on the background thread, which may get a
\* callback, be archived, or lose its session to an invalidation.
BgInit == InitWith(<<LocalThreadRecord(1, "s1", 0)>>, BgOps, BgNotes, 0)

\* a child that answers with a result or with "Session Not Found"
RespondBg == \E id \in 1..next_id :
                \E payload \in {p \in FreshPayloadsFor(id) :
                                  p.msg \in {"", "Session Not Found"}} :
                   ReaderResponse(id, payload)

BgNext ==
    \/ Handshake
    \/ \E c \in Callers : Collect(c)
    \/ \E c \in Tasks : AcpSend(c)
    \/ RespondBg
    \/ Notify
    \/ \E t \in 1..MaxThreads : RegisterCallback(t) \/ UnregisterCallback(t)
    \/ \E c \in Callers :
          \/ ThreadStartWith(c, TRUE)
          \/ ThreadStartDone(c)
          \/ ThreadArchive(c, 2)
          \/ invalidate_all_thread_sessions(c)
          \/ TurnStart(c, 1, <<"p">>, "")
          \/ \E model \in {"", "m2"} : TurnStart(c, 2, <<"p">>, model)
          \/ TurnNewDone(c)
          \/ TurnDispatch(c)
          \/ TurnResponse(c)
          \/ TurnRetryNewDone(c)
          \/ TurnTimeout(c)
          \/ TurnPersist(c)
          \/ TurnComplete(c)

SpecBg == BgInit /\ [][BgNext]_vars

\* the thread ids thread/start has handed out in a run of SpecBg
BackgroundIds == (Len(file) + 1)..nextThread

\* SpecReader: the dispatch loop reads lines of every kind, for the session
\* of thread 1 and for another one, before, during and after a turn/start
\* call on thread 1.
AllKinds == StreamingKinds \cup {"available_commands_update", "usage_update"}

ReaderUpdates ==
    {Update(k, text, 0) : k \in AllKinds \ ToolKinds, text \in {<<>>, <<"a">>}}
    \cup {Update(k, <<>>, id) : k \in ToolKinds, id \in ToolIds \cup {0}}

ReaderInit == InitWith(<<LocalThreadRecord(1, "s1", 0)>>, ReaderOps, ReaderNotes, 0)

ReaderNext ==
    \/ Handshake
    \/ \E c \in Callers : Collect(c)
    \/ \E c \in Tasks : AcpSend(c)
    \/ RespondPlain
    \/ \E sid \in {"s1", "s2"}, update \in ReaderUpdates : ReadLine(sid, update)
    \/ DispatchLine
    \/ \E raw \in RawLines : ReaderRawLine(raw)
    \/ \E tool \in ToolIds \cup {0} : ReaderPermission(1, "s1", <<>>, tool)
    \/ \E c \in Callers :
          \/ TurnStart(c, 1, <<"p">>, "")
          \/ TurnDispatch(c)
          \/ TurnResponse(c)
          \/ TurnTimeout(c)
          \/ TurnPersist(c)
          \/ TurnComplete(c)

SpecReader == ReaderInit /\ [][ReaderNext]_vars

\* SpecTitle: during a turn/start call on thread 1 the child sends one
\* tool_call or tool_call_update whose title is any text of at most MaxTitle
\* of the characters the inference looks for, or one of a few longer ones,
\* with and without a tool and a server member.
TitleChars == {" ", "=", ">", "*", "/", "."}

Titles ==
    UNION {[1..n -> TitleChars] : n \in 0..MaxTitle}
    \cup {None,
          <<"*", ".", "=", ">">>,
          <<"=", ">", "*", "*", "/">>,
          <<"a", ".", "M", "D">>,
          <<"a", "b", "c">>,
          <<"N", "u", "l", "l">>,
          <<"{", "}">>}

TitleUpdates ==
    {[Update(kind, <<>>, 1) EXCEPT !.title = title, !.tool = tool,
                                   !.server = server] :
        kind \in ToolKinds, title \in Titles,
        tool \in {None, <<"\"", "\"">>, <<"x">>},
        server \in {None, <<"s">>}}

TitleInit == InitWith(<<LocalThreadRecord(1, "s1", 0)>>, TitleOps, TitleNotes, 0)

TitleNext ==
    \/ Handshake
    \/ \E c \in Callers : Collect(c)
    \/ \E c \in Tasks : AcpSend(c)
    \/ RespondPlain
    \/ \E update \in TitleUpdates : ReadLine("s1", update)
    \/ DispatchLine
    \/ \E c \in Callers :
          \/ TurnStart(c, 1, <<"p">>, "")
          \/ TurnDispatch(c)
          \/ TurnResponse(c)
          \/ TurnPersist(c)
          \/ TurnComplete(c)

SpecTitle == TitleInit /\ [][TitleNext]_vars

\* SpecCache: during a turn/start call on thread 1 the child sends up to
\* CacheNotes lines about tool call 1: permission requests, tool_call and
\* tool_call_update notifications, with and without a title and a result,
\* the result being possibly the empty string.
CacheUpdates ==
    {[Update(kind, <<>>, 1) EXCEPT !.title = title, !.result = result] :
        kind \in ToolKinds, title \in {None, <<"A">>, <<"B">>},
        result \in {None, <<>>, <<"r">>}}

CacheToolCalls ==
    {[ToolCall(1) EXCEPT !.title = title] : title \in {None, <<"A">>, <<"B">>}}

CacheInit == InitWith(<<LocalThreadRecord(1, "s1", 0)>>, CacheOps, CacheNotes, 0)

CacheNext ==
    \/ Handshake
    \/ \E c \in Callers : Collect(c)
    \/ \E c \in Tasks : AcpSend(c)
    \/ RespondPlain
    \/ \E update \in CacheUpdates : ReadLine("s1", update)
    \/ DispatchLine
    \/ \E toolCall \in CacheToolCalls :
          ReaderPermissionRequest(1, "s1", <<>>, toolCall)
    \/ \E c \in Callers :
          \/ TurnStart(c, 1, <<"p">>, "")
          \/ TurnDispatch(c)
          \/ TurnResponse(c)
          \/ TurnPersist(c)
          \/ TurnComplete(c)

SpecCache == CacheInit /\ [][CacheNext]_vars

\* SpecSegment: before, during and after one turn/start call on thread 1 the
\* child sends up to SegmentNotes lines for its session: text chunks,
\* tool_call and tool_call_update notifications with and without a
\* toolCallId, and permission requests; the prompt is answered with a result
\* or the wait for the answer expires.
SegmentUpdates ==
    {Update("agent_message_chunk", <<"a">>, 0)}
    \cup {Update(kind, <<>>, id) : kind \in ToolKinds, id \in ToolIds \cup {0}}

SegmentInit ==
    InitWith(<<LocalThreadRecord(1, "s1", 0)>>, SegmentOps, SegmentNotes, 0)

SegmentNext ==
    \/ Handshake
    \/ \E c \in Callers : Collect(c)
    \/ \E c \in Tasks : AcpSend(c)
    \/ RespondPlain
    \/ \E update \in SegmentUpdates : ReadLine("s1", update)
    \/ DispatchLine
    \/ \E tool \in ToolIds \cup {0} : ReaderPermission(1, "s1", <<>>, tool)
    \/ \E c \in Callers :
          \/ TurnStart(c, 1, <<"p">>, "")
          \/ TurnDispatch(c)
          \/ TurnResponse(c)
          \/ TurnTimeout(c)
          \/ TurnPersist(c)
          \/ TurnComplete(c)

SpecSegment == SegmentInit /\ [][SegmentNext]_vars

\* SpecSession: turn/start calls on thread 1, whose record holds a
\* session id or none, without a model, with the preferred model and with
\* another one, and calls without a threadId, for a thread the store does
\* not hold, or without a prompt text; the child answers with a result or
\* "Session Not Found", or not at all.
SessionModels == {"", "m1", "m2"}
\* the threadId of a call: 0 for none, 2 for one the store does not hold
SessionThreads == {0, 1, 2}
SessionPrompts == {<<>>, <<" ">>, <<"p">>}

SessionInit == \E f \in TurnFiles : InitWith(f, SessionOps, 0, 0)

SessionNext ==
    \/ Handshake
    \/ \E c \in Callers : Collect(c)
    \/ \E c \in Tasks : AcpSend(c)
    \/ RespondBg
    \/ \E c \in Callers :
          \/ \E t \in SessionThreads, prompt \in SessionPrompts,
                model \in SessionModels : TurnStart(c, t, prompt, model)
          \/ TurnNewDone(c)
          \/ TurnDispatch(c)
          \/ TurnResponse(c)
          \/ TurnRetryNewDone(c)
          \/ TurnTimeout(c)
          \/ TurnPersist(c)
          \/ TurnComplete(c)

SpecSession == SessionInit /\ [][SessionNext]_vars

\* SpecExit: the handshake and the calls that wait for the child, with a
\* child that answers with a result or an error, does not answer, or ends;
\* the timers of the bounded waits fire, and a write to a child that has
\* ended fails.
ExitInit == \E f \in TurnFiles : InitWith(f, ExitOps, 0, 0)

\* the child answers a request it has read and not answered yet
RespondOnce == \E id \in 1..next_id :
                  \E payload \in {p \in FreshPayloadsFor(id) :
                                     p.msg \in {"", "Session Not Found",
                                               "Internal error"}} :
                     /\ child = "running"
                     /\ id \in Written \ answered
                     /\ ReaderResponse(id, payload)

\* the steps of spawn_workspace_session
SpawnerStep ==
    \/ Load
    \/ child = "running" /\ AcpSend(Spawner)
    \/ InitializeWriteFail
    \/ InitializeDone
    \/ InitializeTimeout

\* the steps of a call that has started
CallerStep(c) ==
    \/ Collect(c)
    \/ child = "running" /\ AcpSend(c)
    \/ child # "running" /\ (AcpWriteFail(c) \/ SessionNewWriteFail(c))
    \/ ThreadStartDone(c)
    \/ TurnNewDone(c)
    \/ TurnDispatch(c)
    \/ TurnResponse(c)
    \/ TurnRetryNewDone(c)
    \/ TurnTimeout(c)
    \/ TurnPersist(c)
    \/ TurnComplete(c)

ExitNext ==
    \/ SpawnerStep
    \/ ChildExit
    \/ ReaderEof
    \/ RespondOnce
    \/ \E c \in Callers :
          \/ CallerStep(c)
          \/ ThreadStart(c)
          \/ TurnStart(c, 1, <<"p">>, "")

SpecExit == ExitInit /\ [][ExitNext]_vars

\* every task that can take a step takes one, the reader task returns from
\* next_line at the end of the stream, and the timers fire
FairExit ==
    /\ SpecExit
    /\ WF_vars(SpawnerStep)
    /\ WF_vars(ReaderEof)
    /\ \A c \in Callers : WF_vars(CallerStep(c))

\* SpecLate: turn/start calls on one thread that follow each other, never
\* overlapping, with a child that works on the prompts of a session in the
\* order it received them, streams for the prompt it works on chunks whose
\* text names the turn of that prompt, and may be slower than the 90 seconds.
LateInit == InitWith(<<LocalThreadRecord(1, "s1", 0)>>, LateOps, LateNotes, 0)

\* the text of the chunks that answer the prompt of a turn
ChunkOfTurn(turn) == <<<<"1">>, <<"2">>, <<"3">>, <<"4">>>>[turn]

\* the session/prompt requests the child has read and not answered
OpenPrompts == {id \in Written \ answered : sent[id].method = "session/prompt"}

\* the prompt the child works on: the oldest one it has not answered
CurrentPrompt == CHOOSE id \in OpenPrompts : \A other \in OpenPrompts : id <= other

SidOf(id) == stdin[CHOOSE i \in 1..Len(stdin) : stdin[i].id = id].sid

StreamCurrent ==
    /\ OpenPrompts # {}
    /\ ReaderSessionUpdate(SidOf(CurrentPrompt),
                           Update("agent_message_chunk",
                                  ChunkOfTurn(sent[CurrentPrompt].turn), 0))

AnswerCurrent ==
    /\ OpenPrompts # {}
    /\ ReaderResponse(CurrentPrompt, OkResult)

LateNext ==
    \/ Handshake
    \/ Collect("c1")
    \/ \E c \in {Spawner, "c1"} : AcpSend(c)
    \/ RespondPlain /\ OpenPrompts = {}
    \/ StreamCurrent
    \/ AnswerCurrent
    \/ TurnStart("c1", 1, <<"p">>, "")
    \/ TurnDispatch("c1")
    \/ TurnResponse("c1")
    \/ TurnTimeout("c1")
    \/ TurnPersist("c1")
    \/ TurnComplete("c1")

SpecLate == LateInit /\ [][LateNext]_vars

\* SpecAttr: permission requests and available_commands_update notifications
\* with the session id of a stored thread, with another session id, or with
\* none, while turn/start calls run and the session ids of the store are
\* invalidated.
AttrInit == \E f \in TurnFiles : InitWith(f, AttrOps, AttrNotes, 0)

\* the sessionId member of a line; "" stands for a line without one, which
\* unwrap_or_default reads as the empty string
AttrSessionIds == {"", "s1", "s2"}

AttrNext ==
    \/ Handshake
    \/ \E c \in Callers : Collect(c)
    \/ \E c \in Tasks : AcpSend(c)
    \/ RespondPlain
    \/ \E sid \in AttrSessionIds, tool \in ToolIds \cup {0} :
          ReaderPermission(1, sid, <<>>, tool)
    \/ \E sid \in AttrSessionIds :
          ReadLine(sid, Update("available_commands_update", <<>>, 0))
    \/ DispatchLine
    \/ \E c \in Callers :
          \/ invalidate_all_thread_sessions(c)
          \/ TurnStart(c, 1, <<"p">>, "")
          \/ TurnNewDone(c)
          \/ TurnDispatch(c)
          \/ TurnResponse(c)
          \/ TurnPersist(c)
          \/ TurnComplete(c)

SpecAttr == AttrInit /\ [][AttrNext]_vars

\* SpecTrace: beside one stored thread, background threads are started, run
\* turns and are archived; during the turns the child streams chunks,
\* reports tool calls and asks for permission on the sessions of the
\* background threads.  No operation is called on the stored thread.
TraceInit == InitWith(<<LocalThreadRecord(1, "s1", 0)>>, TraceOps, TraceNotes, 0)

TraceNext ==
    \/ Handshake
    \/ \E c \in Callers : Collect(c)
    \/ \E c \in Tasks : AcpSend(c)
    \/ RespondPlain
    \/ Notify
    \/ NotifyTool
    \/ \E sid \in Working, tool \in ToolIds \cup {0} :
          ReaderPermission(1, sid, <<>>, tool)
    \/ \E c \in Callers :
          \/ ThreadStartWith(c, TRUE)
          \/ ThreadStartDone(c)
          \/ \E t \in BackgroundIds :
                \/ TurnStart(c, t, <<"p">>, "")
                \/ ThreadArchive(c, t)
          \/ TurnDispatch(c)
          \/ TurnResponse(c)
          \/ TurnTimeout(c)
          \/ TurnPersist(c)
          \/ TurnComplete(c)

SpecTrace == TraceInit /\ [][TraceNext]_vars

\* SpecSink: the events of a turn/start call and of the notifications the
\* child streams during it are sent into the channel while the forwarding
\* task hands them to the sink at any speed.
SinkInit == InitWith(<<LocalThreadRecord(1, "s1", 0)>>, SinkOps, SinkNotes, 0)

SinkNext ==
    \/ Handshake
    \/ \E c \in Callers : Collect(c)
    \/ \E c \in Tasks : AcpSend(c)
    \/ RespondPlain
    \/ Notify
    \/ NotifyTool
    \/ ForwardEvent
    \/ \E c \in Callers :
          \/ TurnStart(c, 1, <<"p">>, "")
          \/ TurnDispatch(c)
          \/ TurnResponse(c)
          \/ TurnTimeout(c)
          \/ TurnPersist(c)
          \/ TurnComplete(c)

SpecSink == SinkInit /\ [][SinkNext]_vars

\* SpecLife: a turn/start call on a stored thread with every outcome: the
\* child streams chunks and tool calls and answers with any result or error,
\* or not at all, the write of a prompt can fail, and the thread can be
\* archived meanwhile.
LifeInit == \E f \in TurnFiles : InitWith(f, LifeOps, LifeNotes, 0)

LifeNext ==
    \/ Handshake
    \/ \E c \in Callers : Collect(c)
    \/ \E c \in Tasks : AcpSend(c)
    \/ \E c \in Callers : AcpWriteFail(c)
    \/ RespondFresh
    \/ Notify
    \/ NotifyTool
    \/ \E c \in Callers :
          \/ ThreadArchive(c, 1)
          \/ TurnsBegun < LifeTurns /\ TurnStart(c, 1, <<"p">>, "")
          \/ TurnNewDone(c)
          \/ TurnDispatch(c)
          \/ TurnResponse(c)
          \/ TurnRetryNewDone(c)
          \/ TurnTimeout(c)
          \/ TurnPersist(c)
          \/ TurnComplete(c)

SpecLife == LifeInit /\ [][LifeNext]_vars

\* SpecInterrupt: turn/interrupt on a stored or unknown thread, concurrent
\* with a turn/start on thread 1; the child answers session/cancel with a
\* result or an error and every other request with a result, or not at all.
RespondInterrupt ==
    \E id \in 1..next_id :
       \E payload \in {p \in FreshPayloadsFor(id) :
                          \/ p.kind = "result"
                          \/ id \in DOMAIN sent /\ sent[id].method = "session/cancel"} :
          ReaderResponse(id, payload)

InterruptInit ==
    InitWith(<<LocalThreadRecord(1, "s1", 0)>>, InterruptOps, InterruptNotes, 0)

InterruptNext ==
    \/ Handshake
    \/ \E c \in Callers : Collect(c)
    \/ \E c \in Tasks : AcpSend(c)
    \/ RespondInterrupt
    \/ Notify
    \/ \E c \in Callers :
          \/ \E t \in 1..MaxThreads : TurnInterrupt(c, t)
          \/ TurnInterruptDone(c)
          \/ TurnsBegun < InterruptTurns /\ TurnStart(c, 1, <<"p">>, "")
          \/ TurnDispatch(c)
          \/ TurnResponse(c)
          \/ TurnTimeout(c)
          \/ TurnPersist(c)
          \/ TurnComplete(c)

SpecInterrupt == InterruptInit /\ [][InterruptNext]_vars

\* SpecItems: items are written to the log of thread 1, which is empty at
\* first; an item is the assistant item of one of ItemTurns turns with one
\* of two texts.
ItemsInit == InitWith(<<LocalThreadRecord(1, "s1", 0)>>, ItemOps, 0, 0)

ItemsNext ==
    \/ Handshake
    \/ \E c \in Callers : Collect(c)
    \/ \E c \in Tasks : AcpSend(c)
    \/ RespondPlain
    \/ \E c \in Callers, turn \in 1..ItemTurns, text \in {<<"a">>, <<"b">>} :
          persist_thread_item(c, 1, build_agent_thread_item(1, turn, text))

SpecItems == ItemsInit /\ [][ItemsNext]_vars

\* SpecPerm: the child asks for permission with any list of at most
\* MaxOptions options and the client answers with any decision.
OptionNames == <<"A", "B", "C", "D">>
PermIds == {1}

OptionLists ==
    UNION {{[i \in 1..n |->
               [kind |-> g[i][1],
                optionId |-> IF g[i][2] THEN OptionNames[i] ELSE NoOptionId]] :
            g \in [1..n -> OptionKinds \X BOOLEAN]} :
           n \in 0..MaxOptions}

PermInit == InitWith(<<LocalThreadRecord(1, "s1", 0)>>, PermOps, PermNotes, 0)

PermNext ==
    \/ Handshake
    \/ \E c \in Callers : Collect(c)
    \/ \E c \in Tasks : AcpSend(c)
    \/ RespondPlain
    \/ \E id \in PermIds, options \in OptionLists, tool \in ToolIds \cup {0} :
          ReaderPermission(id, "s1", options, tool)
    \/ \E c \in Callers, id \in PermIds, decision \in Decisions :
          send_response(c, id, decision)

SpecPerm == PermInit /\ [][PermNext]_vars

(***************************************************************************)
(* Properties                                                              *)
(***************************************************************************)
\* C1: in every reachable state of the thread store no two records hold the
\* same non-empty session id.
C1_SessionIdUnique ==
    \A i, j \in 1..Len(records) :
        i # j /\ records[i].session_id = records[j].session_id
            => records[i].session_id = ""

\* the session-not-found recovery of a turn on thread 1 was handed the session
\* id that thread 2 held: thread 1 holds it now and thread 2 holds none
C1_Witness ==
    /\ Len(file) = 2
    /\ Len(records) = 2
    /\ records[1].session_id = "s2"
    /\ records[2].session_id = ""
    /\ opsLeft = StoreOps - 1
    /\ \E c \in Callers : call[c].op = "turn/start" /\ call[c].rebound

\* C2: after load, every record equals the record of the file except that a
\* loser of a collision has an empty session id; of the records that held a
\* session id in the file exactly one still holds it, and it is the one with
\* the greatest (updated_at, message_index), the earliest of them on a tie.
C2_RepairKeepsGreatest ==
    call[Spawner].pc # "load" =>
        /\ Len(records) = Len(file)
        /\ \A i \in 1..Len(file) :
              \/ records[i] = file[i]
              \/ /\ file[i].session_id # ""
                 /\ records[i] = [file[i] EXCEPT !.session_id = ""]
        /\ \A s \in Sessions :
              LET held == {i \in 1..Len(file) : file[i].session_id = s}
                  less(a, b) ==
                      \/ file[a].updated_at < file[b].updated_at
                      \/ /\ file[a].updated_at = file[b].updated_at
                         /\ file[a].message_index < file[b].message_index
              IN  \A w \in held :
                      records[w].session_id = s <=>
                          \A j \in held \ {w} :
                              IF j < w THEN less(j, w) ELSE ~less(w, j)

\* a loaded file in which two records with equal stamps held one session id
\* and a later record with a greater stamp held another: the earlier record
\* of the tie and the later record with the greater stamp kept their ids
C2_Witness ==
    /\ call[Spawner].pc # "load"
    /\ Len(file) = 3
    /\ \E i, j, k \in 1..3 :
          /\ i < j
          /\ file[i].session_id = "s1" /\ file[j].session_id = "s1"
          /\ file[i].updated_at = file[j].updated_at
          /\ file[i].message_index = file[j].message_index
          /\ records[i].session_id = "s1" /\ records[j].session_id = ""
          /\ k \notin {i, j}
          /\ records[k].session_id = ""
          /\ file[k].session_id = "s1"

C4_TimeoutAfterStreaming ==
    \A c \in Callers :
        LET r == call[c]
            idx == by_thread_id(records, r.thread)
        IN  (/\ r.pc = "done" /\ r.op = "turn/start"
             /\ r.timedout /\ r.saw)
                => /\ r.result = "ok" /\ r.stop = "end_turn"
                   /\ r.completed = 1
                   /\ idx # 0 => r.bumped = 1
                   /\ ~IsBlank(r.heard) => r.wrote = 1

C6_AlwaysRetries ==
    \A c \in Callers :
        LET r == call[c]
        IN  (/\ r.pc = "done" /\ r.op = "turn/start"
             /\ r.first.kind = "error"
             /\ r.first.msg \in {"Session Not Found",
                                 "Session not found: request was aborted"})
                => /\ r.news = 1 /\ r.rebound /\ r.prompts = 2
                   /\ (/\ ~r.timedout /\ r.final.kind = "error"
                       /\ r.final.msg \in {"Session Not Found",
                                           "Session not found: request was aborted"})
                         => r.result = "err"

\* C6, amended: after such a first response turn/start issues exactly one
\* session/new; when that request fails it returns the error without
\* rebinding the thread or dispatching again; otherwise it rebinds the
\* thread, when still stored, to the new session id and dispatches the
\* prompt exactly once more, and an error response to the retry whose
\* message does not contain "request was aborted", a plain "session not
\* found" included, makes it return an error; it issues no third prompt and
\* no second session/new.
C6_RetryOnce ==
    \A c \in Callers :
        LET r == call[c]
            idx == by_thread_id(records, r.thread)
        IN  (/\ r.pc = "done" /\ r.op = "turn/start"
             /\ r.first.kind = "error"
             /\ r.first.msg \in {"Session Not Found",
                                 "Session not found: request was aborted"})
                => /\ r.news = 1
                   /\ r.prompts \in {1, 2}
                   /\ r.prompts = 1 => /\ ~r.rebound
                                       /\ r.resp.kind = "error"
                                       /\ r.result = "err"
                                       /\ r.errmsg = r.resp.msg
                   /\ r.prompts = 2 =>
                         /\ r.rebound
                         /\ r.tracked # r.session
                         /\ idx # 0 /\ TurnsBegun = 1 =>
                               records[idx].session_id = r.tracked
                   /\ (/\ r.prompts = 2 /\ ~r.timedout /\ r.final.kind = "error"
                       /\ r.final.msg \in {"Session Not Found", "Internal error"})
                         => /\ r.result = "err"
                            /\ r.errctx = "turn/start failed"
                            /\ r.errmsg = r.final.msg

\* a turn returned an error after two "session not found" responses: the
\* first made it create a session and retry, the second was not retried
C6_Witness ==
    \E c \in Callers :
        /\ call[c].pc = "done" /\ call[c].op = "turn/start"
        /\ call[c].first.msg = "Session Not Found"
        /\ call[c].final.msg = "Session Not Found"
        /\ call[c].prompts = 2 /\ call[c].news = 1 /\ call[c].rebound
        /\ ~call[c].timedout
        /\ call[c].result = "err"

\* C7 as stated: a turn whose first or retried prompt response is an error
\* with "request was aborted" in its message returns success with stop
\* reason "cancelled", has emitted turn/completed, advanced the counter of a
\* stored thread and written the accumulated text, when not blank.
C7_AbortedNeverFails ==
    \A c \in Callers :
        LET r == call[c]
            idx == by_thread_id(records, r.thread)
            aborted == {"Request was aborted",
                        "Session not found: request was aborted"}
        IN  (/\ r.pc = "done" /\ r.op = "turn/start"
             /\ \/ r.first.kind = "error" /\ r.first.msg \in aborted
                \/ r.final.kind = "error" /\ r.final.msg \in aborted)
                => /\ r.result = "ok" /\ r.stop = "cancelled"
                   /\ r.completed = 1
                   /\ idx # 0 => r.bumped = 1
                   /\ ~r.shared /\ ~IsBlank(r.heard) => r.wrote = 1

\* C7, amended: a turn whose last prompt response is such an error, and not
\* a first-attempt response that also contains "session not found" (which is
\* retried), returns success with stop reason "cancelled"; it emits one
\* turn/completed event, writes the accumulated text as the assistant item
\* when it is not blank, and its completing step increases the message
\* counter by one when the thread's record is still stored.
C7_AbortedIsCancelled ==
    \A c \in Callers :
        LET r == call[c]
            t == r.thread
            idx == by_thread_id(records, t)
            done == {i \in 1..Len(events) : /\ events[i].method = "turn/completed"
                                             /\ events[i].turn = r.turn}
            said == IF IsBlank(r.heard) THEN <<>>
                    ELSE <<build_agent_thread_item(t, r.turn, r.heard)>>
        IN  (/\ r.pc = "done" /\ r.op = "turn/start"
             /\ ~r.timedout /\ r.final.kind = "error"
             /\ \/ r.final.msg = "Request was aborted"
                \/ /\ r.final.msg = "Session not found: request was aborted"
                   /\ r.prompts = 2)
                => /\ r.result = "ok" /\ r.stop = "cancelled"
                   /\ r.retTurn = r.turn
                   /\ r.completed = 1 /\ Cardinality(done) = 1
                   /\ r.wrote \in {0, 1}
                   /\ ~r.shared => /\ r.wrote = Len(said)
                                   /\ r.wrote = 1 => r.said = r.heard
                   /\ r.bumped = IF idx # 0 THEN 1 ELSE 0
                   /\ idx # 0 /\ nextTurn = 1 =>
                         records[idx].message_index = r.idx0 + 1

\* a turn returned success after a "Request was aborted" response to its
\* first prompt; the chunk "a" had been delivered and is its assistant item
C7_Witness ==
    \E c \in Callers :
        /\ call[c].pc = "done" /\ call[c].op = "turn/start"
        /\ call[c].final.msg = "Request was aborted"
        /\ call[c].prompts = 1
        /\ call[c].result = "ok" /\ call[c].stop = "cancelled"
        /\ call[c].said = <<"a">>
        /\ call[c].bumped = 1

\* C8: a turn whose last prompt response is an error that is neither a
\* first-attempt "session not found" nor a "request was aborted" error
\* returns an error made of the context "turn/start failed" and the message
\* of the response; it has written no request but the prompt and, before a
\* retry, the one session/new, has emitted no turn/completed event, written
\* no assistant item and not advanced the message counter.
C8_OtherErrorFails ==
    \A c \in Callers :
        LET r == call[c]
            t == r.thread
            idx == by_thread_id(records, t)
        IN  (/\ r.pc = "done" /\ r.op = "turn/start"
             /\ ~r.timedout /\ r.final.kind = "error"
             /\ \/ r.final.msg = "Internal error"
                \/ r.final.msg = "Session Not Found" /\ r.prompts = 2)
                => /\ r.result = "err"
                   /\ r.errctx = "turn/start failed"
                   /\ r.errmsg = r.final.msg
                   /\ r.prompts = r.news + 1
                   /\ r.completed = 0 /\ r.wrote = 0 /\ r.bumped = 0
                   /\ \A i \in 1..Len(events) :
                         ~(/\ events[i].method = "turn/completed"
                           /\ events[i].turn = r.turn)
                   /\ \A i \in 1..Len(items[t]) :
                         items[t][i].id # <<"agent", t, r.turn>>
                   /\ idx # 0 /\ nextTurn = 1 =>
                         records[idx].message_index = r.idx0

\* a turn returned "turn/start failed" with "Internal error" after a chunk
\* had been delivered for its session; the thread's log has no assistant item
C8_Witness ==
    \E c \in Callers :
        /\ call[c].pc = "done" /\ call[c].op = "turn/start"
        /\ call[c].final.msg = "Internal error"
        /\ call[c].heard = <<"a">>
        /\ call[c].result = "err"
        /\ call[c].errctx = "turn/start failed"
        /\ by_thread_id(records, call[c].thread) # 0

\* C9: the ids of the requests written to the child are pairwise distinct,
\* the ids allocated so far are exactly 1 .. next_id - 1, and a response with
\* id n has completed the task that allocated n, once, and no other task.
C9_IdsRouteToSender ==
    /\ \A i, j \in 1..Len(stdin) : i # j => stdin[i].id # stdin[j].id
    /\ DOMAIN sent = 1..(next_id - 1)
    /\ \A i \in 1..Len(stdin) :
          /\ stdin[i].id \in DOMAIN sent
          /\ sent[stdin[i].id].method = stdin[i].method
    /\ \A id \in DOMAIN woken : woken[id] = <<sent[id].task>>
    /\ \A c \in Tasks :
          call[c].pc = "wait" /\ call[c].resp # NoResp
              => /\ call[c].rid \in DOMAIN woken
                 /\ sent[call[c].rid].task = c

\* two callers wrote their requests in the reverse order of their ids and a
\* response completed each of them
C9_Witness ==
    \E i, j \in 1..Len(stdin) :
        /\ i < j
        /\ stdin[i].id > stdin[j].id
        /\ stdin[i].id \in DOMAIN woken
        /\ stdin[j].id \in DOMAIN woken
        /\ sent[stdin[i].id].task # sent[stdin[j].id].task

\* C10: a response line whose id has no entry in the pending table, or whose
\* entry belongs to a caller that no longer waits for it, completes no
\* caller, emits no event and changes neither the thread store, the item
\* logs nor the prompt trackers.
C10_UnmatchedDropped ==
    [][\A id \in 1..next_id : \A payload \in PayloadsFor(id) :
          (/\ ReaderResponse(id, payload)
           /\ \/ id \notin DOMAIN pending
              \/ call[pending[id]].rid # id)
              => /\ call' = call
                 /\ events' = events
                 /\ records' = records
                 /\ items' = items
                 /\ UNCHANGED trackVars]_vars

\* the response to a prompt arrived after the wait for it had expired: it
\* completed no task and took the entry of the prompt out of the table
C10_Witness ==
    \E id \in answered :
        /\ id \in DOMAIN sent
        /\ sent[id].method = "session/prompt"
        /\ id \notin DOMAIN woken
        /\ id \notin DOMAIN pending
        /\ staleLeft = RpcStale

\* C11 as stated: the response to a stored permission request carries the id
\* of the request; with no stored option it is "cancelled"; otherwise it
\* selects the optionId of the first stored option of kind allow_once, or
\* with none of that kind of the first of kind allow_always, for "accept",
\* and of reject_once and then reject_always for every other decision.
C11_FirstOfKind ==
    \A c \in Callers :
        LET r == call[c]
            line == stdin[Len(stdin)]
            k1 == IF r.decision = "accept" THEN "allow_once" ELSE "reject_once"
            k2 == IF r.decision = "accept" THEN "allow_always" ELSE "reject_always"
            of(k) == {i \in 1..Len(r.options) : r.options[i].kind = k}
            first(k) == CHOOSE i \in of(k) : \A j \in of(k) : i <= j
        IN  (r.pc = "done" /\ r.op = "send_response" /\ r.had)
                => /\ line.id = r.arg
                   /\ r.options = <<>> => line.outcome = "cancelled"
                   /\ of(k1) # {} =>
                         /\ line.outcome = "selected"
                         /\ line.optionId = r.options[first(k1)].optionId
                   /\ of(k1) = {} /\ of(k2) # {} =>
                         /\ line.outcome = "selected"
                         /\ line.optionId = r.options[first(k2)].optionId

\* C11, amended: among the stored options that carry an optionId, the
\* response selects the first of kind allow_once, or with none the first of
\* kind allow_always, for "accept", and of reject_once and then reject_always
\* for every other decision or a missing one; with no stored option it is
\* "cancelled"; it carries the id of the request.
C11_FirstOfKindWithId ==
    \A c \in Callers :
        LET r == call[c]
            line == stdin[Len(stdin)]
            k1 == IF r.decision = "accept" THEN "allow_once" ELSE "reject_once"
            k2 == IF r.decision = "accept" THEN "allow_always" ELSE "reject_always"
            of(k) == {i \in 1..Len(r.options) :
                         /\ r.options[i].kind = k
                         /\ r.options[i].optionId # NoOptionId}
            first(k) == CHOOSE i \in of(k) : \A j \in of(k) : i <= j
        IN  (r.pc = "done" /\ r.op = "send_response" /\ r.had)
                => /\ line.id = r.arg
                   /\ r.options = <<>> => line.outcome = "cancelled"
                   /\ of(k1) # {} =>
                         /\ line.outcome = "selected"
                         /\ line.optionId = r.options[first(k1)].optionId
                   /\ of(k1) = {} /\ of(k2) # {} =>
                         /\ line.outcome = "selected"
                         /\ line.optionId = r.options[first(k2)].optionId

\* "accept" was answered to the options [reject_once A, allow_always B,
\* allow_once C]: the response selects C
C11_Witness ==
    \E c \in Callers :
        /\ call[c].pc = "done" /\ call[c].op = "send_response" /\ call[c].had
        /\ call[c].decision = "accept"
        /\ call[c].options = <<[kind |-> "reject_once", optionId |-> "A"],
                               [kind |-> "allow_always", optionId |-> "B"],
                               [kind |-> "allow_once", optionId |-> "C"]>>
        /\ stdin[Len(stdin)].outcome = "selected"
        /\ stdin[Len(stdin)].optionId = "C"

\* C12: when no stored option has a kind preferred for the decision, the
\* response selects the first stored option that carries an optionId,
\* whatever its kind; the response is "cancelled" exactly when no stored
\* option carries an optionId.
C12_FallbackToAnyOption ==
    \A c \in Callers :
        LET r == call[c]
            line == stdin[Len(stdin)]
            wanted == IF r.decision = "accept" THEN {"allow_once", "allow_always"}
                      ELSE {"reject_once", "reject_always"}
            carrying == {i \in 1..Len(r.options) :
                            r.options[i].optionId # NoOptionId}
            first == CHOOSE i \in carrying : \A j \in carrying : i <= j
        IN  (r.pc = "done" /\ r.op = "send_response" /\ r.had)
                => /\ line.outcome = "cancelled" <=> carrying = {}
                   /\ carrying # {} => line.outcome = "selected"
                   /\ (/\ \A i \in 1..Len(r.options) : r.options[i].kind \notin wanted
                       /\ carrying # {})
                         => line.optionId = r.options[first].optionId

\* "decline" was answered to the options [allow_once without an optionId,
\* allow_always B]: the response selects B
C12_Witness ==
    \E c \in Callers :
        /\ call[c].pc = "done" /\ call[c].op = "send_response" /\ call[c].had
        /\ call[c].decision = "decline"
        /\ call[c].options = <<[kind |-> "allow_once", optionId |-> NoOptionId],
                               [kind |-> "allow_always", optionId |-> "B"]>>
        /\ stdin[Len(stdin)].outcome = "selected"
        /\ stdin[Len(stdin)].optionId = "B"

\* C13: the first line written to the child is the initialize request, with
\* id 1 and protocol version 1; a further line is written, and the connected
\* event is emitted, only after the spawning task has received an initialize
\* response that is not an error; when the wait for the response expired,
\* spawn has returned an error and no connected event was emitted.
C13_InitializeFirst ==
    LET connected == {i \in 1..Len(sink) : sink[i].method = "micode/connected"}
        received == call[Spawner].resp.kind = "result"
    IN  /\ stdin # <<>> => /\ stdin[1].method = "initialize"
                           /\ stdin[1].id = 1
                           /\ stdin[1].protocolVersion = 1
        /\ Len(stdin) > 1 => received
        /\ connected # {} => received /\ 1 \in Written
        /\ call[Spawner].errctx = "MiCode ACP did not respond to initialize"
              => /\ call[Spawner].pc = "done" /\ call[Spawner].result = "err"
                 /\ connected = {}
                 /\ Len(stdin) <= 1

\* the initialize response arrived, the connected event was emitted and a
\* session/prompt request was written as the second line
C13_Witness ==
    /\ Len(stdin) >= 2
    /\ stdin[1].method = "initialize"
    /\ stdin[2].method = "session/prompt"
    /\ call[Spawner].resp.kind = "result"
    /\ \E i \in 1..Len(sink) : sink[i].method = "micode/connected"

\* C14: after an item was upserted, a log that held an entry with the id of
\* the item has the same length, holds the item at the position of that
\* entry and is unchanged at every other position; a log that held no such
\* entry is the old log with the item appended; in both cases exactly one
\* entry has the id of the item, and it is the item.
C14_UpsertInPlace ==
    \A c \in Callers :
        LET r == call[c]
            old == r.items0
            new == items[r.thread]
            at == {i \in 1..Len(old) : old[i].id = r.item.id}
        IN  (r.pc = "done" /\ r.op = "persist_thread_item")
                => /\ IF at # {}
                      THEN /\ Len(new) = Len(old)
                           /\ \A i \in 1..Len(old) :
                                 new[i] = IF i \in at THEN r.item ELSE old[i]
                      ELSE new = old \o <<r.item>>
                   /\ Cardinality({i \in 1..Len(new) : new[i].id = r.item.id}) = 1
                   /\ \A i \in 1..Len(new) : new[i].id = r.item.id => new[i] = r.item

\* the log held the items of three turns and the item of the second was
\* upserted with another text: the second entry holds the new text
C14_Witness ==
    \E c \in Callers :
        /\ call[c].pc = "done" /\ call[c].op = "persist_thread_item"
        /\ Len(call[c].items0) = 3
        /\ call[c].items0[2].id = call[c].item.id
        /\ call[c].items0[2].text # call[c].item.text
        /\ Len(items[1]) = 3
        /\ items[1][2] = call[c].item

\* C15 as stated: after thread/archive of a stored thread has returned, the
\* record of the thread is still in the store, found by its thread id, with
\* its archived flag set, and the thread is not among the unarchived records
\* that thread/list returns.
C15_ArchiveIsSoftDelete ==
    \A c \in Callers :
        LET r == call[c]
            idx == by_thread_id(records, r.thread)
            listed == list_unarchived(records)
        IN  (r.pc = "done" /\ r.op = "thread/archive" /\ r.had)
                => /\ idx # 0
                   /\ records[idx].archived
                   /\ \A i \in 1..Len(listed) : listed[i].thread_id # r.thread

\* C16 as stated: once a stored thread has been archived, its item log is
\* empty and stays empty: no later step writes an item for the thread.  (A
\* thread id that was handed out and has no record is that of an archived
\* thread.)
C16_ArchivedLogStaysEmpty ==
    \A t \in 1..MaxThreads :
        (t <= nextThread /\ by_thread_id(records, t) = 0) => items[t] = <<>>

\* C17: a turn/interrupt on a stored thread that has returned wrote exactly
\* one request, a session/cancel with the session id the thread held when
\* the call began; it returned success with a null result when the response
\* was a "not currently generating" error, an error when the response was
\* another error, and the response itself otherwise; and no step of a
\* turn/interrupt call changes the thread store, the item logs or the prompt
\* trackers.
C17_InterruptCancelsOnce ==
    /\ [](\A c \in Callers :
            LET r == call[c]
                mine == {id \in DOMAIN sent : sent[id].task = c /\ id >= r.arg}
                lines == {i \in 1..Len(stdin) :
                             stdin[i].method # "" /\ stdin[i].id \in mine}
            IN  (r.pc = "done" /\ r.op = "turn/interrupt" /\ r.had)
                    => /\ Cardinality(mine) = 1
                       /\ Cardinality(lines) = 1
                       /\ \A i \in lines : /\ stdin[i].method = "session/cancel"
                                           /\ stdin[i].sid = r.session
                       /\ r.resp.kind = "error" /\ r.resp.msg = "Not Currently Generating"
                             => r.result = "ok" /\ r.stop = "null"
                       /\ r.resp.kind = "error" /\ r.resp.msg = "Internal error"
                             => /\ r.result = "err"
                                /\ r.errctx = "turn/interrupt failed"
                                /\ r.errmsg = r.resp.msg
                       /\ r.resp.kind = "result"
                             => r.result = "ok" /\ r.stop = "response")
    /\ [][(\E c \in Callers :
              /\ call'[c] # call[c]
              /\ call[c].op = "turn/interrupt" \/ call'[c].op = "turn/interrupt")
            => UNCHANGED <<records, items, trackVars>>]_vars

\* a turn/interrupt returned success after a "not currently generating"
\* error while a turn/start on the thread was waiting for its prompt
\* response, a notification for its session delivered
C17_Witness ==
    \E c, d \in Callers :
        /\ call[c].pc = "done" /\ call[c].op = "turn/interrupt" /\ call[c].had
        /\ call[c].resp.msg = "Not Currently Generating"
        /\ call[c].result = "ok"
        /\ call[d].op = "turn/start" /\ call[d].pc = "wait"
        /\ call[c].session = call[d].tracked
        /\ streaming[call[d].tracked] = "true"

\* C18: when a turn/start call that tracked a prompt has returned, whatever
\* its outcome, no streaming flag, segment counter or active-prompt context
\* is registered for the session ids its prompts were sent on, unless
\* another turn/start call is in flight on the session.
C18_TrackersReleased ==
    \A c \in Callers :
        LET r == call[c]
        IN  (r.pc = "done" /\ r.op = "turn/start" /\ r.turn # 0)
                => \A s \in {r.session, r.tracked} \cap Sessions :
                       ~Overlapped(c, s)
                           => /\ streaming[s] = "absent"
                              /\ segments[s] = -1
                              /\ active[s] = NoCtx

\* a turn returned an error: its first prompt was answered "session not
\* found" after a tool call had been announced, and the write of the retried
\* prompt on the new session failed
C18_Witness ==
    \E c \in Callers :
        /\ call[c].pc = "done" /\ call[c].op = "turn/start"
        /\ call[c].result = "err"
        /\ call[c].final = WriteError
        /\ call[c].prompts = 1
        /\ call[c].tracked \in Sessions
        /\ call[c].tracked # call[c].session
        /\ tool_call_presentations # <<>>

\* C19: the events handed to the sink by the forwarding task are, in order,
\* the first events sent into the channel; so the events derived from the
\* child's lines, which the dispatch loop sends while it handles each line
\* in turn, reach the sink in the order of the lines, however far the sink
\* lags behind and whatever the callers send in between.
C19_SinkKeepsLineOrder ==
    LET LineMethods == {"item/agentMessage/delta", "item/reasoning/textDelta",
                        "item/started", "item/completed",
                        "workspace/requestApproval"}
        OfLines(evs) == SelectSeq(evs, LAMBDA e : e.method \in LineMethods)
    IN  /\ Len(Forwarded) <= Len(events)
        /\ Forwarded = SubSeq(events, 1, Len(Forwarded))
        /\ OfLines(Forwarded) = SubSeq(OfLines(events), 1, Len(OfLines(Forwarded)))

\* the sink has received the events of two lines of the child, a tool call
\* and then a chunk, while a third line's event is still in the channel
C19_Witness ==
    \E i, j \in 1..Len(sink) :
        /\ i < j
        /\ sink[i].method = "item/started"
        /\ sink[j].method = "item/agentMessage/delta"
        /\ Len(Forwarded) < Len(events)
        /\ events[Len(events)].method \in {"item/completed", "item/reasoning/textDelta"}

\* C20 as stated: the bytes written to the child's stdin are the bytes of
\* whole lines one after the other: a byte that is not the first of its line
\* follows the byte before it of the same line, and a byte that is not the
\* newline of its line is followed by the next byte of the same line, or is
\* the last byte written so far while the task that holds the stdin mutex
\* is still writing that line.
C20_WholeLines ==
    \A i \in 1..Len(wire) :
        LET b == wire[i]
        IN  /\ b.at > 1 => /\ i > 1
                           /\ wire[i - 1] = [b EXCEPT !.at = b.at - 1]
            /\ b.at < LineBytes =>
                  \/ /\ i < Len(wire)
                     /\ wire[i + 1] = [b EXCEPT !.at = b.at + 1]
                  \/ /\ i = Len(wire)
                     /\ \E c \in Tasks :
                           /\ stdin_lock = c
                           /\ call[c].pc = "writing"
                           /\ call[c].line.id = b.id
                           /\ call[c].line.method = b.method
                           /\ call[c].nwritten = b.at

C22_BackgroundIsSilent ==
    \A i \in 1..Len(events) :
        events[i].method \in {"thread/started", "thread/name/updated",
                              "turn/started", "turn/completed"}
            => events[i].thread \notin BackgroundIds

\* a turn/start on a background thread returned a turn after the session
\* was recreated
C22_Witness ==
    \E c \in Callers :
        /\ call[c].pc = "done" /\ call[c].op = "turn/start"
        /\ call[c].thread \in BackgroundIds
        /\ call[c].background
        /\ call[c].result = "ok"
        /\ call[c].prompts = 2

\* the method of the event the update kinds are translated to
C23_MethodOf ==
    [k \in AllKinds |->
        CASE k = "agent_message_chunk" -> "item/agentMessage/delta"
          [] k = "agent_thought_chunk" -> "item/reasoning/textDelta"
          [] k = "plan" -> "turn/plan/updated"
          [] k = "available_commands_update" -> "micode/availableCommands/updated"
          [] k = "tool_call" -> "item/started"
          [] k = "tool_call_update" -> "item/completed"
          [] OTHER -> "(no event)"]

\* C23: a step of the dispatch loop that translates a session/update sends
\* at most one event: one of the method of its kind for a chunk with text, a
\* plan, an available_commands_update, a tool_call and a tool_call_update,
\* none for a kind that is not known or a chunk without text; the event
\* carries the thread id of the context the update was translated with.
C23_OneEventPerUpdate ==
    [][DispatchLine =>
          LET sid == stdout_line.sessionId
              update == stdout_line.update
              idx == by_session_id(records, sid)
              prompt == IF sid \in Sessions THEN active[sid] ELSE NoCtx
              thread == IF prompt # NoCtx THEN prompt.thread_id
                        ELSE IF update.kind = "available_commands_update" /\ idx # 0
                        THEN records[idx].thread_id
                        ELSE 0
              emitted == SubSeq(events', Len(events) + 1, Len(events'))
              silent == \/ C23_MethodOf[update.kind] = "(no event)"
                        \/ /\ update.kind \in UpdateKinds
                           /\ update.text = <<>>
          IN  /\ SubSeq(events', 1, Len(events)) = events
              /\ Len(emitted) <= 1
              /\ thread # 0 => (emitted = <<>> <=> silent)
              /\ \A i \in 1..Len(emitted) :
                    /\ emitted[i].method = C23_MethodOf[update.kind]
                    /\ emitted[i].thread = thread]_vars

\* a plan and a tool_call_update were translated during a prompt
C23_Witness ==
    \E i, j \in 1..Len(events) :
        /\ events[i].method = "turn/plan/updated" /\ events[i].thread = 1
        /\ events[j].method = "item/completed" /\ events[j].thread = 1

\* C24 as stated: the event of a tool call that has no cached presentation shows "Tool: <server> / <tool>"
\* when it carries a tool name, with the server micode when the line has no
\* server member, else "Tool: <title>" when the line has a title that
\* survives sanitize_tool_title, else "Tool Call"; without a tool member a
\* title that contains "=>" gives the tool edit and a title that contains
\* "**/" or "*." gives the tool glob.
C24_DisplayTitle ==
    [][/\ DispatchLine
       /\ Len(events') = Len(events) + 1
       /\ stdout_line.update.toolCallId \notin DOMAIN tool_call_presentations
       => LET update == stdout_line.update
              e == events'[Len(events')]
              title == sanitize_tool_title(update.title)
              named == normalize_tool_name(update.server)
          IN  /\ e.shown.tool # None =>
                    e.shown.title =
                       ToolPrefix \o (IF named # None THEN named ELSE Micode)
                                  \o <<" ", "/", " ">> \o e.shown.tool
              /\ e.shown.tool = None /\ title # None =>
                    e.shown.title = ToolPrefix \o title
              /\ e.shown.tool = None /\ title = None =>
                    e.shown.title = <<"T", "o", "o", "l", " ", "C", "a", "l", "l">>
              /\ update.tool = None /\ update.title # None =>
                    /\ contains(update.title, <<"=", ">">>) =>
                          e.shown.tool = EditTool
                    /\ \/ contains(update.title, <<"*", "*", "/">>)
                       \/ contains(update.title, <<"*", ".">>)
                       => e.shown.tool = GlobTool]_vars

\* C24 with the order of the inference: the same, but a title gives the tool
\* glob when it contains "**/" or "*." and does not contain "=>".
C24_DisplayTitleInOrder ==
    [][/\ DispatchLine
       /\ Len(events') = Len(events) + 1
       /\ stdout_line.update.toolCallId \notin DOMAIN tool_call_presentations
       => LET update == stdout_line.update
              e == events'[Len(events')]
              title == sanitize_tool_title(update.title)
              named == normalize_tool_name(update.server)
          IN  /\ e.shown.tool # None =>
                    e.shown.title =
                       ToolPrefix \o (IF named # None THEN named ELSE Micode)
                                  \o <<" ", "/", " ">> \o e.shown.tool
              /\ e.shown.tool = None /\ title # None =>
                    e.shown.title = ToolPrefix \o title
              /\ e.shown.tool = None /\ title = None =>
                    e.shown.title = <<"T", "o", "o", "l", " ", "C", "a", "l", "l">>
              /\ update.tool = None /\ update.title # None =>
                    /\ contains(update.title, <<"=", ">">>) =>
                          e.shown.tool = EditTool
                    /\ /\ \/ contains(update.title, <<"*", "*", "/">>)
                          \/ contains(update.title, <<"*", ".">>)
                       /\ ~contains(update.title, <<"=", ">">>)
                       => e.shown.tool = GlobTool]_vars

\* a tool call without a tool member was shown as an edit of the server
\* micode, which its title made it
C24_Witness ==
    \E i \in 1..Len(events) :
        /\ events[i].method = "item/started"
        /\ events[i].shown.title =
              ToolPrefix \o Micode \o <<" ", "/", " ">> \o EditTool

\* C25: for every member of the presentation of a tool call, the first
\* non-empty value a permission request or a notification has supplied is
\* the one the cache keeps and the one the event and the stored item of
\* every later notification carry; the cache entry of a call is removed by
\* a tool_call_update for that call only.
C25_FirstNonEmptyWins ==
    [][/\ \A id \in DOMAIN tool_call_presentations :
             id \notin DOMAIN tool_call_presentations' =>
                /\ DispatchLine
                /\ stdout_line.update.kind = "tool_call_update"
                /\ stdout_line.update.toolCallId = id
       /\ \A toolCall \in CacheToolCalls :
             ReaderPermissionRequest(1, "s1", <<>>, toolCall) =>
                LET id == toolCall.toolCallId
                    prior == IF id \in DOMAIN tool_call_presentations
                             THEN tool_call_presentations[id]
                             ELSE DefaultPresentation
                    incoming == extract_tool_presentation_from_permission(toolCall)
                IN  \A f \in DOMAIN prior :
                       LET first == IF prior[f] \notin {None, <<>>} THEN prior[f]
                                    ELSE incoming[f]
                       IN  first \notin {None, <<>>} =>
                              tool_call_presentations'[id][f] = first
       /\ (DispatchLine /\ Len(events') = Len(events) + 1) =>
             LET update == stdout_line.update
                 id == update.toolCallId
                 prior == IF id \in DOMAIN tool_call_presentations
                          THEN tool_call_presentations[id]
                          ELSE DefaultPresentation
                 incoming == extract_tool_presentation_from_update(update)
                 e == events'[Len(events')]
                 log == items'[e.thread]
                 item == log[CHOOSE k \in 1..Len(log) : log[k].id = <<"tool", id>>]
             IN  \A f \in DOMAIN prior :
                    LET first == IF prior[f] \notin {None, <<>>} THEN prior[f]
                                 ELSE incoming[f]
                    IN  first \notin {None, <<>>} =>
                           /\ f # "title" => item[f] = first
                           /\ f \in {"server", "tool", "arguments"} =>
                                 e.shown[f] = first
                           /\ /\ f \in {"result", "error"}
                              /\ update.kind = "tool_call_update"
                              => e.shown[f] = first
                           /\ update.kind = "tool_call" =>
                                 tool_call_presentations'[id][f] = first]_vars

\* C26: a tool call is announced once: between two item/started events for
\* the same tool call id there is an item/completed event for it, which a
\* tool_call_update sends.
C26_OneItemStarted ==
    \A i, j \in 1..Len(events) :
        /\ i < j
        /\ events[i].method = "item/started"
        /\ events[j].method = "item/started"
        /\ events[i].item = events[j].item
        => \E k \in (i + 1)..(j - 1) :
              /\ events[k].method = "item/completed"
              /\ events[k].item = events[i].item

C28_StreamingFlag ==
    [][/\ \A c \in Callers :
             call[c].pc = "dispatch" /\ call'[c].pc # "dispatch" =>
                streaming'[call'[c].tracked] = "false"
       /\ \A s \in Sessions :
             streaming[s] # "true" /\ streaming'[s] = "true" =>
                /\ DispatchLine
                /\ streaming[s] = "false"
                /\ stdout_line.sessionId = s
                /\ stdout_line.update.kind \in
                      {"agent_message_chunk", "agent_thought_chunk", "tool_call",
                       "tool_call_update", "plan"}]_vars

\* the prompt on session s1 was marked as streaming while s2 was not tracked
C28_Witness ==
    /\ streaming["s1"] = "true"
    /\ streaming["s2"] = "absent"
    /\ \E c \in Callers : call[c].pc = "wait" /\ call[c].tracked = "s1"

C30_RejectedUnchanged ==
    [][\A c \in Callers, t \in SessionThreads, prompt \in SessionPrompts,
          model \in SessionModels :
          /\ TurnStart(c, t, prompt, model)
          /\ t = 0 \/ by_thread_id(records, t) = 0 \/ IsBlank(prompt)
          => /\ call'[c].pc = "done"
             /\ call'[c].result = "err"
             /\ call'[c].errmsg =
                   IF t = 0 THEN "missing threadId"
                   ELSE IF by_thread_id(records, t) = 0 THEN "thread not found"
                   ELSE "empty user message"
             /\ UNCHANGED <<stdin, wire, pending, next_id, events, sink, records,
                            file, items, preferred, trackVars, nextTurn>>]_vars

\* a call with an empty prompt was rejected while another call on the thread was waiting for its prompt response
C30_Witness ==
    \E c, d \in Callers :
        /\ call[c].pc = "done" /\ call[c].op = "turn/start"
        /\ call[c].errmsg = "empty user message"
        /\ call[d].pc = "wait" /\ call[d].method = "session/prompt"

\* C31: a thread/resume of a stored thread returns the items of the item log
\* of the thread, in the order of the log and as they are, leaves the log as
\* it is, and sends no request to the child.
C31_ResumeWithoutRequest ==
    [][\A c \in Callers :
          /\ ThreadResumeDone(c)
          /\ call'[c].result = "ok"
          => /\ call'[c].retItems = items[call[c].thread]
             /\ items' = items
             /\ call'[c].created = 0
             /\ stdin' = stdin]_vars

\* C31, with the request that thread/resume sends: a thread/resume of a
\* stored thread first asks the child for a new session with one session/new
\* request and sends no other request; when the child answers with a session
\* id, the id is stored for the thread if the thread is still stored, and the
\* call returns the items of the item log of the thread, in the order of the
\* log and as they are, and leaves the log as it is; when the child answers with an error the call
\* returns the error and changes neither the store nor the log.
C31_ResumeAfterNewSession ==
    [][\A c \in Callers :
          /\ \A t \in 1..MaxThreads :
                ThreadResume(c, t) /\ by_thread_id(records, t) # 0 =>
                   /\ call'[c].pc = "alloc"
                   /\ call'[c].method = "session/new"
                   /\ UNCHANGED <<items, records, stdin>>
          /\ ThreadResumeDone(c) =>
                /\ call[c].created = 1
                /\ call[c].prompts = 0
                /\ call[c].method = "session/new"
                /\ items' = items
                /\ stdin' = stdin
                /\ IF call[c].resp.kind = "error"
                   THEN /\ call'[c].result = "err"
                        /\ records' = records
                   ELSE /\ call'[c].result = "ok"
                        /\ call'[c].retItems = items[call[c].thread]
                        /\ by_thread_id(records, call[c].thread) # 0 =>
                              records'[by_thread_id(records', call[c].thread)]
                                 .session_id = call[c].resp.sid]_vars

\* a thread/resume returned the item that a turn had written to the log
C31_Witness ==
    \E c \in Callers :
        /\ call[c].op = "thread/resume"
        /\ call[c].pc = "done"
        /\ call[c].result = "ok"
        /\ Len(call[c].retItems) = 1
        /\ call[c].retItems = items[call[c].thread]

\* C32: when spawn_workspace_session returns an error of the handshake (the
\* initialize request timed out, could not be written, or was answered with
\* an error), the child process is not left running.
C32_KilledOnFailure ==
    call[Spawner].pc = "done" /\ call[Spawner].result = "err" => child # "running"

\* C33: a caller that waits for the response to its request while the reader
\* task has stopped at the end of the child's output resumes.
C33_SuspendedResumes ==
    \A c \in Tasks :
        (call[c].pc = "wait" /\ call[c].resp = NoResp /\ reader = "stopped")
           ~> (call[c].pc # "wait")

\* C37: every id of the pending table is the id that a task waits on: the
\* task is inside send_acp_request for this id and has no response yet.
C37_PendingIsWaiting ==
    \A id \in DOMAIN pending :
        /\ call[pending[id]].pc = "wait"
        /\ call[pending[id]].rid = id
        /\ call[pending[id]].resp = NoResp

\* C40: every turn/start call returns, whatever the child answers or fails
\* to answer.
C40_TurnStartReturns ==
    \A c \in Callers :
        (call[c].op = "turn/start") ~> (call[c].pc = "done")

\* C34: when the sink receives the turn/completed event of a turn, it has
\* received, in the order of the child's lines, every message delta,
\* reasoning delta, plan and tool item event that was sent for the thread
\* before the turn/completed event, and no event that names the turn is
\* sent after it; these are the events derived from the notifications that
\* the child, which streams while it works on the prompt, emitted before it
\* answered the prompt.
C34_DeltasBeforeCompleted ==
    LET TurnMethods == {"item/agentMessage/delta", "item/reasoning/textDelta",
                        "turn/plan/updated", "item/started", "item/completed"}
        OfThread(evs, t) ==
            SelectSeq(evs, LAMBDA e : e.thread = t /\ e.method \in TurnMethods)
    IN  \A k \in 1..Len(sink) :
           sink[k].method = "turn/completed" =>
              \E j \in 1..Len(events) :
                 /\ events[j] = sink[k]
                 /\ OfThread(SubSeq(sink, 1, k - 1), sink[k].thread)
                       = OfThread(SubSeq(events, 1, j - 1), sink[k].thread)
                 /\ \A i \in (j + 1)..Len(events) : events[i].turn # sink[k].turn

\* the sink received the events of a tool call and of a chunk of the turn,
\* and then the turn/completed event of the turn, whose prompt was answered
C34_Witness ==
    \E i, j, k \in 1..Len(sink) :
        /\ i < j /\ j < k
        /\ sink[i].method = "item/started"
        /\ sink[j].method = "item/agentMessage/delta"
        /\ sink[k].method = "turn/completed"
        /\ sink[i].thread = sink[k].thread
        /\ sink[j].turn = sink[k].turn
        /\ \E id \in answered : id \in DOMAIN sent /\ sent[id].method = "session/prompt"

\* C35: the text of the assistant item written for a turn is made of the
\* chunks that the child streamed in answer to the prompt of that turn, and
\* of no chunk streamed for the prompt of another turn.
C35_OnlyOwnText ==
    \A t \in 1..MaxThreads : \A i \in 1..Len(items[t]) :
        items[t][i].type = "agentMessage" =>
            \A k \in 1..Len(items[t][i].text) :
                <<items[t][i].text[k]>> = ChunkOfTurn(items[t][i].id[3])

\* C36: when a turn/start call concludes its prompt (the response arrived or
\* the 90 seconds expired) while another turn/start call on the same session
\* still waits for the response to its prompt, the active prompt context,
\* the streaming flag and the segment counter of the session stay as they
\* are for the call that still waits.
C36_OtherTurnKeepsTrackers ==
    [][\A c, d \in Callers :
          /\ c # d
          /\ TurnResponse(c) \/ TurnTimeout(c)
          /\ Prompting(call[d]) /\ call[d].pc = "wait" /\ call[d].resp = NoResp
          /\ call[d].tracked = call[c].tracked
          => /\ active'[call[d].tracked] = active[call[d].tracked]
             /\ streaming'[call[d].tracked] = streaming[call[d].tracked]
             /\ segments'[call[d].tracked] = segments[call[d].tracked]]_vars

\* C38: the workspace/requestApproval event of a permission request, and the
\* event of an available_commands_update notification that arrives while no
\* prompt is active on its session, name a thread only if the line carries a
\* session id that is not empty and is the session id the thread holds; a
\* line without a session id names no thread.
C38_AttributedBySessionId ==
    [][LET Holds(t, sid) ==
               /\ sid # ""
               /\ \E i \in 1..Len(records) :
                     records[i].thread_id = t /\ records[i].session_id = sid
       IN  /\ \A sid \in AttrSessionIds, tool \in ToolIds \cup {0} :
                 ReaderPermission(1, sid, <<>>, tool) =>
                    \A k \in (Len(events) + 1)..Len(events') :
                       events'[k].thread # 0 => Holds(events'[k].thread, sid)
           /\ /\ DispatchLine
              /\ stdout_line.update.kind = "available_commands_update"
              /\ stdout_line.sessionId \in Sessions =>
                    active[stdout_line.sessionId] = NoCtx
              => \A k \in (Len(events) + 1)..Len(events') :
                    events'[k].thread # 0 =>
                       Holds(events'[k].thread, stdout_line.sessionId)]_vars

\* C39: while only background threads are started, run and archived, the
\* thread store holds the records it was loaded with and no item log is
\* written.
C39_NoDurableTrace ==
    ReaderSpawned =>
       /\ records = repair_session_collisions(file)
       /\ \A t \in 1..MaxThreads : items[t] = <<>>

====
